---- MODULE Spec2Model ----
(***************************************************************************)
(* Model of the deduplication-aware Zotero export of feedder-mcp           *)
(* (src/src/adapters/zotero.py, ZoteroAdapter) and of the concurrent feed  *)
(* fetch (src/src/paper_feed/sources/rss.py, RSSSource).                   *)
(*                                                                         *)
(* Text is modelled as a sequence of symbols (a symbol is a short piece    *)
(* of text such as "https://doi.org/", "10.1/" or "X"); the normalizers    *)
(* work on these sequences symbol by symbol.  The Python value None is the *)
(* reserved sequence None.                                                 *)
(***************************************************************************)
EXTENDS Integers, Sequences, FiniteSets, TLC

VARIABLES
    pc,                \* position of the export coroutine
    papers,            \* the input list of PaperItem
    collection_id,     \* the collection_id argument
    collections_env,   \* what the remote get_collections does
    listing_env,       \* what the remote listing methods do
    collection_keys,   \* export: <<the resolved collection>>, <<>> for None
    listed,            \* what _list_existing_items gave: [ok, items, probed]
    existing_key_set,  \* export: the identity index
    idx,               \* index in papers of the record being processed (1-based)
    zotero_item,       \* payload of the create call in flight
    success_count,
    skipped_count,
    skipped_by_key,
    failures,
    raised,            \* an exception left export
    returned,          \* <<the mapping export returned>>, <<>> before it returns
    preloads,          \* history: how many times the remote store was listed
    create_calls,      \* history: the create calls issued, in order
    outcomes,          \* history: what happened to each record so far
    _feeds,            \* RSSSource: the feeds read from the OPML file, in order
    max_concurrent,    \* RSSSource: the max_concurrent attribute
    rss_pc,            \* position of the fetch_papers coroutine
    rss_limit,         \* fetch_papers: the limit argument
    rss_since,         \* fetch_papers: the since argument
    semaphore,         \* fetch_papers: the value of the semaphore
    tasks,             \* fetch_papers: position of each _fetch_one task
    results,           \* fetch_papers: what gather collects, one slot per feed
    all_papers,        \* the list fetch_papers returned, <<>> before it returns
    out_of_order,      \* history: a fetch completed before an earlier feed's
    interp_pc,         \* position of the interpretation of one create result
    interp_result,     \* the value create_item returned
    interp_counts,     \* <<created_n, skipped_n, failed_n>>, <<>> before
    interp_error,      \* <<the text _summarize_create_failures gave>>, <<>> before
    coerce_pc,         \* position of the coercion of one remote item
    raw_item,          \* the remote item handed to _coerce_item_to_dict
    coerce_out         \* what _coerce_item_to_dict returned: <<item>> or <<>>

export_vars == <<pc, papers, collection_id, collections_env, listing_env,
          collection_keys, listed, existing_key_set, idx, zotero_item, success_count,
          skipped_count, skipped_by_key, failures, raised, returned,
          preloads, create_calls, outcomes>>

rss_vars == <<_feeds, max_concurrent, rss_pc, rss_limit, rss_since, semaphore, tasks,
              results, all_papers, out_of_order>>

fn_vars == <<interp_pc, interp_result, interp_counts, interp_error,
             coerce_pc, raw_item, coerce_out>>

vars == <<export_vars, rss_vars, fn_vars>>

-----------------------------------------------------------------------------
(* Bounds of the model.                                                    *)

MaxPapers == 2
MaxInt == 2

-----------------------------------------------------------------------------
(* Text.                                                                   *)

None == <<"<None>">>

(* F(e), with e evaluated once                                             *)
Strict(e, F(_)) == CHOOSE r \in {F(x) : x \in {e}} : TRUE

LowerMap ==
    [X |-> "x", A |-> "a", B |-> "b", F |-> "f", C |-> "c",
     Preprint |-> "preprint"]
    @@ ("DOI:" :> "doi:") @@ ("HTTPS://DOI.ORG/" :> "https://doi.org/")
    @@ ("HTTP://DOI.ORG/" :> "http://doi.org/") @@ ("HTTPS://" :> "https://")
    @@ ("X.COM" :> "x.com")

(* str.lower() of one symbol                                               *)
Lower(sym) == IF sym \in DOMAIN LowerMap THEN LowerMap[sym] ELSE sym

LowerAll(s) == Strict(s, LAMBDA v : [k \in 1..Len(v) |-> Lower(v[k])])

IsSpace(sym) == sym = " "

RECURSIVE LStripV(_)
LStripV(v) == IF v # <<>> /\ IsSpace(Head(v)) THEN LStripV(Tail(v)) ELSE v

RECURSIVE RStripV(_)
RStripV(v) ==
    IF v # <<>> /\ IsSpace(v[Len(v)]) THEN RStripV(SubSeq(v, 1, Len(v) - 1)) ELSE v

(* str.strip()                                                             *)
Strip(s) == Strict(Strict(s, LStripV), RStripV)

RECURSIVE CollapseV(_)
CollapseV(v) ==
    IF Len(v) < 2 THEN v
    ELSE IF IsSpace(v[1]) /\ IsSpace(v[2]) THEN CollapseV(Tail(v))
    ELSE <<Head(v)>> \o CollapseV(Tail(v))

(* runs of whitespace become one space                                     *)
CollapseSpaces(s) == Strict(s, CollapseV)

DoiPrefixes == {"https://doi.org/", "http://doi.org/", "doi:"}

normalize_doi(raw) ==
    Strict(Strip(raw), LAMBDA t :
        LowerAll(Strip(IF t # <<>> /\ Lower(Head(t)) \in DoiPrefixes
                       THEN Tail(t) ELSE t)))

normalize_title(raw) == Strip(CollapseSpaces(LowerAll(raw)))

normalize_date(raw) == Strip(raw)

RECURSIVE CutQueryV(_)
CutQueryV(v) ==
    IF v = <<>> \/ Head(v) \in {"?", "#"} THEN <<>>
    ELSE <<Head(v)>> \o CutQueryV(Tail(v))

(* a URL is <<scheme, host, path..., "?", query, "#", fragment>>           *)
normalize_url(raw) ==
    Strict(Strict(Strip(raw), CutQueryV), LAMBDA u :
        Strict([k \in 1..Len(u) |-> IF k <= 2 THEN Lower(u[k]) ELSE u[k]], LAMBDA v :
            IF v # <<>> /\ v[Len(v)] = "/" THEN SubSeq(v, 1, Len(v) - 1) ELSE v))

Present(v) == v # None /\ v # <<>>

DeriveV(a) ==
    (IF Present(a.doi) /\ normalize_doi(a.doi) # <<>>
        THEN << <<"doi", normalize_doi(a.doi)>> >> ELSE <<>>)
    \o
    (IF Present(a.title) /\ Present(a.date)
        THEN << <<"title_date",
                  normalize_title(a.title) \o <<"|">> \o normalize_date(a.date)>> >>
        ELSE <<>>)
    \o
    (IF Present(a.url) THEN << <<"url", normalize_url(a.url)>> >> ELSE <<>>)

(* derive_keys over the uniform accessor (title, doi, date, url): every    *)
(* derivable kind, in the tier order doi, title_date, url.                 *)
derive_keys(title, doi, date, url) ==
    Strict([title |-> title, doi |-> doi, date |-> date, url |-> url], DeriveV)

(* datetime.date.isoformat(): a date is <<year, month, day>>.              *)
isoformat(d) == <<d[1], "-", d[2], "-", d[3]>>

paper_export_identity_keys(paper) ==
    derive_keys(paper.title, paper.doi,
                IF paper.published_date # None THEN isoformat(paper.published_date)
                ELSE None,
                paper.url)

Field(m, f) == IF f \in DOMAIN m THEN m[f] ELSE None

(* A remote item is a dict: either nested, [data |-> fields], or flat (an  *)
(* outgoing payload, whose fields are at top level).                       *)
zotero_data_identity_keys(item) ==
    LET data == IF "data" \in DOMAIN item THEN item["data"] ELSE item
    IN  derive_keys(Field(data, "title"), Field(data, "DOI"),
                    Field(data, "date"), Field(data, "url"))

SeqToSet(s) == {s[k] : k \in 1..Len(s)}

-----------------------------------------------------------------------------
(* PaperItem and the outgoing payload.                                     *)

(* payload field |-> PaperItem attribute, for the plain optional strings   *)
PassThrough ==
    [publicationTitle |-> "publication_title",
     journalAbbreviation |-> "journal_abbreviation",
     publisher |-> "publisher", place |-> "place", volume |-> "volume",
     issue |-> "issue", pages |-> "pages", section |-> "section",
     partNumber |-> "part_number", partTitle |-> "part_title",
     series |-> "series", seriesTitle |-> "series_title",
     seriesText |-> "series_text", DOI |-> "doi",
     citationKey |-> "citation_key", url |-> "url", PMID |-> "pmid",
     PMCID |-> "pmcid", ISSN |-> "issn", archive |-> "archive",
     archiveLocation |-> "archive_location", shortTitle |-> "short_title",
     language |-> "language", libraryCatalog |-> "library_catalog",
     callNumber |-> "call_number", rights |-> "rights"]

PaperStringFields ==
    {PassThrough[f] : f \in DOMAIN PassThrough}
        \cup {"title", "abstract", "published_date", "access_date", "item_type"}

(* PaperItem(...) with every optional attribute at its default             *)
PaperItem(title) ==
    [f \in PaperStringFields \cup {"authors"} |->
        CASE f = "title" -> title
          [] f = "authors" -> <<>>
          [] f = "abstract" -> <<>>
          [] f = "item_type" -> <<"journalArticle">>
          [] OTHER -> None]

With(paper, f, v) == [paper EXCEPT ![f] = v]

Today == <<"today">>

PreprintAllowedFields ==
    {"itemType", "title", "creators", "abstractNote", "repository", "archive",
     "archiveLocation", "DOI", "citationKey", "url", "accessDate", "date",
     "shortTitle", "language", "rights", "collections", "extra"}

Restrict(m, keep) == Strict(m, LAMBDA v : [f \in DOMAIN v \cap keep |-> v[f]])

(* Python truthiness of an optional string                                 *)
Truthy(v) == v # None /\ v # <<>>

NormalizePreprint(item) ==
    LET publication_title == Field(item, "publicationTitle")
        withRepo ==
            IF Truthy(publication_title) /\ ~Truthy(Field(item, "repository"))
            THEN ("repository" :> publication_title) @@ item
            ELSE item
    IN  Restrict(withRepo, PreprintAllowedFields)

(* the payload is sent as built, whatever the item type                    *)
NormalizeNothing(item, item_type) == item

_normalize_item_for_type(item, item_type) ==
    IF LowerAll(Strip(item_type)) # <<"preprint">> THEN item
    ELSE Strict(item, NormalizePreprint)

(* The string-valued part of the payload before normalisation: None marks  *)
(* a null value.                                                           *)
(* the access date is written into the date field                          *)
PayloadAccessDateAsDate(paper, item_type) ==
    [f \in DOMAIN PassThrough \cup {"itemType", "title", "abstractNote",
                                     "accessDate", "date"} |->
        CASE f = "itemType" -> item_type
          [] f = "title" -> paper["title"]
          [] f = "abstractNote" ->
                IF Truthy(paper["abstract"]) THEN paper["abstract"] ELSE None
          [] f \in {"accessDate", "date"} ->
                IF paper["access_date"] # None THEN isoformat(paper["access_date"])
                ELSE Today
          [] OTHER -> paper[PassThrough[f]]]

PayloadStrings(paper, item_type) ==
    [f \in DOMAIN PassThrough \cup {"itemType", "title", "abstractNote",
                                     "accessDate", "date"} |->
        CASE f = "itemType" -> item_type
          [] f = "title" -> paper["title"]
          [] f = "abstractNote" ->
                IF Truthy(paper["abstract"]) THEN paper["abstract"] ELSE None
          [] f = "accessDate" ->
                IF paper["access_date"] # None THEN isoformat(paper["access_date"])
                ELSE Today
          [] f = "date" ->
                IF paper["published_date"] # None
                THEN isoformat(paper["published_date"]) ELSE None
          [] OTHER -> paper[PassThrough[f]]]

DropNone(m) == Strict(m, LAMBDA v : [f \in {g \in DOMAIN v : v[g] # None} |-> v[f]])

_paper_to_zotero_item(paper, coll_keys) ==
    LET item_type == IF Truthy(paper["item_type"]) THEN paper["item_type"]
                     ELSE <<"journalArticle">>
        strings == DropNone(_normalize_item_for_type(
                                PayloadStrings(paper, item_type), item_type))
        creators == [k \in 1..Len(paper["authors"]) |->
                        [creatorType |-> "author", name |-> paper["authors"][k]]]
        lists == IF coll_keys # <<>>
                 THEN [creators |-> creators, collections |-> coll_keys]
                 ELSE [creators |-> creators]
    IN  strings @@ lists

-----------------------------------------------------------------------------
(* Create results.                                                         *)
(*                                                                         *)
(* A Python value inside a result is [t, n, items]: t its type ("int",     *)
(* "bool", "list", "dict", "str", "none"), n its number when it is an int  *)
(* or a bool, items its entries when it is a list or a dict.  A result is  *)
(* [isdict, f]: f maps the field names of a mapping to their values.       *)

IntV(k) == [t |-> "int", n |-> k, items |-> <<>>]
BoolV(b) == [t |-> "bool", n |-> IF b THEN 1 ELSE 0, items |-> <<>>]
ListV(entries) == [t |-> "list", n |-> 0, items |-> entries]
DictV(entries) == [t |-> "dict", n |-> 0, items |-> entries]
StrV == [t |-> "str", n |-> 0, items |-> <<>>]
NoneV == [t |-> "none", n |-> 0, items |-> <<>>]

Mapping(fields) == [isdict |-> TRUE, f |-> fields]
NotAMapping == [isdict |-> FALSE, f |-> <<>>]

(* result.get(key)                                                         *)
Get(result, key) == IF key \in DOMAIN result.f THEN result.f[key] ELSE NoneV

(* isinstance(value, int): bool is a subclass of int                       *)
IsInt(value) == value.t \in {"int", "bool"}

Max(a, b) == IF a >= b THEN a ELSE b

(* only a list is counted                                                  *)
CountListsOnly(value) == IF value.t = "list" THEN Len(value.items) ELSE 0

_count(value) ==
    IF IsInt(value) THEN Max(0, value.n)
    ELSE IF value.t = "list" THEN Len(value.items)
    ELSE IF value.t = "dict" THEN Len(value.items)
    ELSE 0

(* for key in keys: value = result.get(key); first int > 0 wins, else dflt *)
RECURSIVE FirstPositive(_, _, _)
FirstPositive(result, keys, dflt) ==
    IF keys = <<>> THEN dflt
    ELSE LET value == Get(result, Head(keys))
         IN  IF IsInt(value) /\ value.n > 0 THEN value.n
             ELSE FirstPositive(result, Tail(keys), dflt)

(* the alternates are read whatever the primary fields say, and added     *)
CountsAddAlternates(result) ==
    LET created_n == _count(Get(result, "created"))
        skipped_n == _count(Get(result, "skipped_duplicates"))
        failed_0 == _count(Get(result, "failed"))
        failed_n == IF failed_0 = 0 THEN _count(Get(result, "failures")) ELSE failed_0
    IN  <<created_n + FirstPositive(result,
                          <<"created_count", "success_count", "inserted_count">>, 0),
          skipped_n + FirstPositive(result, <<"skipped_count", "duplicate_count">>, 0),
          failed_n + FirstPositive(result, <<"failed_count", "error_count">>, 0)>>

(* line 560-597: the counts of a mapping                                   *)
CountsOfMapping(result) ==
    LET created_n == _count(Get(result, "created"))
        skipped_n == _count(Get(result, "skipped_duplicates"))
        failed_0 == _count(Get(result, "failed"))
        failed_n == IF failed_0 = 0 THEN _count(Get(result, "failures")) ELSE failed_0
    IN  IF created_n = 0 /\ skipped_n = 0 /\ failed_n = 0
        THEN <<FirstPositive(result,
                    <<"created_count", "success_count", "inserted_count">>, created_n),
               FirstPositive(result, <<"skipped_count", "duplicate_count">>, skipped_n),
               FirstPositive(result, <<"failed_count", "error_count">>, failed_n)>>
        ELSE <<created_n, skipped_n, failed_n>>

(* a result that reports nothing is taken for one created item             *)
ExtractAssumesSuccess(result) ==
    IF ~result.isdict \/ CountsOfMapping(result) = <<0, 0, 0>> THEN <<1, 0, 0>>
    ELSE CountsOfMapping(result)

_extract_create_result_counts(result) ==
    IF ~result.isdict THEN <<0, 0, 0>> ELSE CountsOfMapping(result)

(* An entry of a failed/failures collection: a dict with optional message  *)
(* and error, or another value; str is its str() and truthy its truth.     *)
DictDetail(message, error, text) ==
    [isdict |-> TRUE, message |-> message, error |-> error, str |-> text,
     truthy |-> message # None \/ error # None]
TextDetail(text) ==
    [isdict |-> FALSE, message |-> None, error |-> None, str |-> text,
     truthy |-> text # <<>>]
EmptyDict == [isdict |-> TRUE, message |-> None, error |-> None, str |-> <<"{}">>,
              truthy |-> FALSE]

(* detail.get("message") or detail.get("error")                            *)
MsgOf(detail) ==
    IF Truthy(detail.message) THEN detail.message ELSE detail.error

(* of repeated messages the last occurrence is kept                        *)
RECURSIVE DedupeKeepLast(_)
DedupeKeepLast(messages) ==
    IF messages = <<>> THEN <<>>
    ELSE IF Head(messages) \in SeqToSet(Tail(messages))
         THEN DedupeKeepLast(Tail(messages))
         ELSE <<Head(messages)>> \o DedupeKeepLast(Tail(messages))

(* list(dict.fromkeys(messages))                                           *)
RECURSIVE Dedupe(_)
Dedupe(messages) ==
    IF messages = <<>> THEN <<>>
    ELSE LET init == Dedupe(SubSeq(messages, 1, Len(messages) - 1))
             last == messages[Len(messages)]
         IN  IF last \in SeqToSet(init) THEN init ELSE Append(init, last)

(* "; ".join(messages)                                                     *)
RECURSIVE Join(_)
Join(messages) ==
    IF messages = <<>> THEN <<>>
    ELSE IF Len(messages) = 1 THEN messages[1]
    ELSE messages[1] \o <<"; ">> \o Join(Tail(messages))

RECURSIVE FailedMessages(_)
FailedMessages(details) ==
    IF details = <<>> THEN <<>>
    ELSE LET detail == Head(details)
             one == IF detail.isdict /\ Truthy(MsgOf(detail)) THEN MsgOf(detail)
                    ELSE detail.str
         IN  <<one>> \o FailedMessages(Tail(details))

RECURSIVE FailuresMessages(_)
FailuresMessages(details) ==
    IF details = <<>> THEN <<>>
    ELSE LET detail == Head(details)
             one == IF detail.isdict
                    THEN (IF Truthy(MsgOf(detail)) THEN <<MsgOf(detail)>> ELSE <<>>)
                    ELSE (IF detail.truthy THEN <<detail.str>> ELSE <<>>)
         IN  one \o FailuresMessages(Tail(details))

Generic(failed_n) == <<"create_item reported ", ToString(failed_n), " failed item(s)">>

_summarize_create_failures(result, failed_n) ==
    LET failed == Get(result, "failed")
        failures_ == Get(result, "failures")
        fromFailed == IF result.isdict /\ failed.t = "dict" /\ failed.items # <<>>
                      THEN FailedMessages(failed.items) ELSE <<>>
        fromFailures == IF result.isdict /\ failures_.t = "list" /\ failures_.items # <<>>
                        THEN FailuresMessages(failures_.items) ELSE <<>>
    IN  IF fromFailed # <<>> THEN Join(Dedupe(fromFailed))
        ELSE IF fromFailures # <<>> THEN Join(Dedupe(fromFailures))
        ELSE Generic(failed_n)

-----------------------------------------------------------------------------
(* Remote items and their coercion.                                        *)
(*                                                                         *)
(* A dict is a function from field names to values.  The fields "data" and *)
(* "raw_data", when present, hold dicts; "creators" and "authors" hold a   *)
(* creators value; the other fields hold text.  A raw item is [kind, d]:   *)
(* a dict, an object with model_dump()/dict() returning d, an object with  *)
(* the attributes d, or an object with none of these.                      *)

DictItem(d) == [kind |-> "dict", d |-> d]
ModelItem(d) == [kind |-> "model", d |-> d]
AttrItem(d) == [kind |-> "attrs", d |-> d]

(* creators values: a list of entries, one string, or something else       *)
CreatorList(entries) == [t |-> "list", entries |-> entries, text |-> <<>>]
CreatorText(text) == [t |-> "str", entries |-> <<>>, text |-> text]
NoCreators == [t |-> "none", entries |-> <<>>, text |-> <<>>]
(* entries of a creators list: a dict with a name, or a plain string       *)
CreatorDict(name) == [isdict |-> TRUE, name |-> name]
CreatorName(name) == [isdict |-> FALSE, name |-> name]

Author(name) == [creatorType |-> "author", name |-> name]

RECURSIVE CoerceCreatorList(_)
CoerceCreatorList(entries) ==
    IF entries = <<>> THEN <<>>
    ELSE LET entry == Head(entries)
             one == IF entry.isdict
                    THEN (IF Truthy(entry.name) THEN <<entry>> ELSE <<>>)
                    ELSE (IF Strip(entry.name) # <<>>
                          THEN <<Author(Strip(entry.name))>> ELSE <<>>)
         IN  one \o CoerceCreatorList(Tail(entries))

(* value.replace(" and ", ";").split(";"): the chunks between separators   *)
RECURSIVE SplitAuthors(_, _)
SplitAuthors(text, chunk) ==
    IF text = <<>> THEN <<chunk>>
    ELSE IF Head(text) \in {";", " and "}
         THEN <<chunk>> \o SplitAuthors(Tail(text), <<>>)
         ELSE SplitAuthors(Tail(text), Append(chunk, Head(text)))

RECURSIVE AuthorsOfChunks(_)
AuthorsOfChunks(chunks) ==
    IF chunks = <<>> THEN <<>>
    ELSE (IF Strip(Head(chunks)) # <<>> THEN <<Author(Strip(Head(chunks)))>> ELSE <<>>)
         \o AuthorsOfChunks(Tail(chunks))

_coerce_creators(value) ==
    IF value.t = "list" THEN CoerceCreatorList(value.entries)
    ELSE IF value.t = "str" THEN AuthorsOfChunks(SplitAuthors(value.text, <<>>))
    ELSE <<>>

CreatorsField(item, f) == IF f \in DOMAIN item THEN item[f] ELSE NoCreators

CreatorsTruthy(value) ==
    (value.t = "list" /\ value.entries # <<>>) \/ (value.t = "str" /\ value.text # <<>>)

(* An int held by a field that may also hold text (year): the mark "#int"  *)
(* followed by its digits.  str() of it is the digits, of a text the text. *)
PyInt(n) == <<"#int", ToString(n)>>
str(value) == IF value # <<>> /\ Head(value) = "#int" THEN Tail(value) ELSE value

(* the year is taken although the item has a date                          *)
DateValueYearFirst(item) ==
    IF Field(item, "year") # None /\ Strip(str(Field(item, "year"))) # <<>>
    THEN str(Field(item, "year"))
    ELSE Field(item, "date")

(* lines 501-505: date_value = item.get("date"), else str(year)            *)
DateValue(item) ==
    IF Truthy(Field(item, "date")) THEN Field(item, "date")
    ELSE IF Field(item, "year") # None /\ Strip(str(Field(item, "year"))) # <<>>
         THEN str(Field(item, "year"))
         ELSE Field(item, "date")

(* mapped[f] = v whenever v is truthy: a later write replaces the field    *)
PutAlways(mapped, f, v, ok) ==
    IF ok THEN (f :> v) @@ mapped ELSE mapped

(* mapped[f] = v unless mapped already has f or v is falsy                 *)
PutNew(mapped, f, v, ok) == IF ok /\ f \notin DOMAIN mapped THEN (f :> v) @@ mapped ELSE mapped

_coerce_flat_item_dict(item) ==
    IF "data" \in DOMAIN item THEN item
    ELSE IF "raw_data" \in DOMAIN item /\ "data" \in DOMAIN item["raw_data"]
    THEN item["raw_data"]
    ELSE
    LET m0 == IF "raw_data" \in DOMAIN item THEN item["raw_data"] ELSE <<>>
        title == Field(item, "title")
        m1 == PutNew(m0, "title", title, Truthy(title))
        doi == IF Truthy(Field(item, "DOI")) THEN Field(item, "DOI")
               ELSE Field(item, "doi")
        m2 == PutNew(m1, "DOI", doi, Truthy(doi))
        date_value == DateValue(item)
        m3 == PutNew(m2, "date", str(date_value), Truthy(date_value))
        creators_value == IF CreatorsTruthy(CreatorsField(item, "creators"))
                          THEN CreatorsField(item, "creators")
                          ELSE CreatorsField(item, "authors")
        creators == _coerce_creators(creators_value)
        m4 == PutNew(m3, "creators", creators, creators # <<>>)
        url == Field(item, "url")
        m5 == PutNew(m4, "url", url, Truthy(url))
    IN  IF DOMAIN m5 # {} THEN [data |-> m5] ELSE item

AttrAllowlist ==
    {"raw_data", "DOI", "doi", "title", "date", "year", "creators", "authors", "url"}

(* the result is <<item>> or <<>> (None)                                   *)
_coerce_item_to_dict(raw) ==
    IF raw.kind \in {"dict", "model"} THEN <<_coerce_flat_item_dict(raw.d)>>
    ELSE IF raw.kind = "attrs" /\ DOMAIN raw.d \cap AttrAllowlist # {}
    THEN <<_coerce_flat_item_dict(Restrict(raw.d, AttrAllowlist))>>
    ELSE <<>>

IsCoerced(item) == item # <<>>

(* the items of values that coerce to a dict, coerced, in order            *)
_normalize_list(values) ==
    Strict(SelectSeq([k \in 1..Len(values) |-> _coerce_item_to_dict(values[k])],
                     IsCoerced),
           LAMBDA coerced : [k \in 1..Len(coerced) |-> coerced[k][1]])

-----------------------------------------------------------------------------
(* Listing the existing items.                                             *)

page_size == 1000
max_pages == 200

(* What a listing call returned: a list, a mapping holding a list under    *)
(* items/results/data (possibly one level deeper under items), a mapping   *)
(* that is one item, or a value of another type.                           *)
ListResult(values) == [shape |-> "list", values |-> values, d |-> <<>>]
WrappedResult(values) == [shape |-> "wrapped", values |-> values, d |-> <<>>]
SingleResult(d) == [shape |-> "single", values |-> <<>>, d |-> d]
OtherResult == [shape |-> "other", values |-> <<>>, d |-> <<>>]

SomeItems(items) == [some |-> TRUE, items |-> items]
NoItems == [some |-> FALSE, items |-> <<>>]

_normalize_item_list_result(result) ==
    IF result.shape \in {"list", "wrapped"} THEN SomeItems(_normalize_list(result.values))
    ELSE IF result.shape = "single" THEN SomeItems(<<_coerce_flat_item_dict(result.d)>>)
    ELSE NoItems

(* What one call of a listing method does: raise is "no", "TypeError" or   *)
(* "Exception"; result is what it returns when it does not raise.          *)
Returns(result) == [raise |-> "no", result |-> result]
Raises(kind) == [raise |-> kind, result |-> OtherResult]

(* A candidate method: whether the attribute is callable, the cursor       *)
(* parameter its signature accepts ("start", "offset" or "none"), and what *)
(* its successive calls do (calls after the last listed one return []).    *)
Method(cursor, calls) ==
    [callable |-> TRUE, cursor |-> cursor, calls |-> calls, paged |-> FALSE, total |-> 0]
NoMethod ==
    [callable |-> FALSE, cursor |-> "none", calls |-> <<>>, paged |-> FALSE, total |-> 0]
(* a method over a store of total items that returns the items             *)
(* start .. start+limit-1 of it (items are numbered from 0)                *)
PagedService(cursor, total) ==
    [callable |-> TRUE, cursor |-> cursor, calls |-> <<>>, paged |-> TRUE, total |-> total]

StoreItem(i) == DictItem([data |-> [title |-> <<"Paper ", ToString(i)>>]])

StoreSlice(total, start, limit) ==
    LET end == IF start + limit < total THEN start + limit ELSE total
    IN  IF start >= total THEN <<>>
        ELSE [k \in 1..(end - start) |-> StoreItem(start + k - 1)]

(* the k-th call of the method, made with the keyword arguments start (or  *)
(* offset) and limit                                                       *)
CallOf(method, k, start, limit) ==
    IF method.paged THEN Returns(ListResult(StoreSlice(method.total, start, limit)))
    ELSE IF k <= Len(method.calls) THEN method.calls[k]
    ELSE Returns(ListResult(<<>>))

(* Outcome of collecting: [raise, found, calls] with found an optional     *)
(* item list and calls the keyword arguments of the calls made             *)
Collected(found, calls) == [raise |-> "no", found |-> found, calls |-> calls]
CollectRaised(kind, calls) == [raise |-> kind, found |-> NoItems, calls |-> calls]

(* lines 374-383, one round of the loop: more is FALSE when the loop is    *)
(* left, with outcome what _collect_items then returns or raises           *)
FetchPage(method, page, all_items, calls) ==
    LET cursor == Len(all_items)
        kwargs == [limit |-> page_size, start |-> cursor]
        Left(outcome) == [more |-> FALSE, outcome |-> outcome,
                          all_items |-> <<>>, calls |-> <<>>]
    IN  Strict(CallOf(method, page, cursor, page_size), LAMBDA call :
        IF call.raise # "no" THEN Left(CollectRaised(call.raise, Append(calls, kwargs)))
        ELSE Strict(_normalize_item_list_result(call.result), LAMBDA batch :
             IF ~batch.some THEN Left(Collected(NoItems, Append(calls, kwargs)))
             ELSE Strict(all_items \o batch.items, LAMBDA extended :
                  IF Len(batch.items) < page_size
                  THEN Left(Collected(SomeItems(extended), Append(calls, kwargs)))
                  ELSE [more |-> TRUE, outcome |-> Collected(NoItems, <<>>),
                        all_items |-> extended, calls |-> Append(calls, kwargs)])))

(* lines 374-383, the rounds first..last of the loop, starting from the    *)
(* loop state loop; the rounds are run in order, as two halves (the fold   *)
(* over range(max_pages) is split so that its evaluation stays shallow)    *)
RECURSIVE LoopPages(_, _, _, _)
LoopPages(method, first, last, loop) ==
    IF ~loop.more THEN loop
    ELSE IF first = last THEN FetchPage(method, first, loop.all_items, loop.calls)
    ELSE Strict(LoopPages(method, first, (first + last) \div 2, loop), LAMBDA half :
             LoopPages(method, ((first + last) \div 2) + 1, last, half))

(* lines 371-390: limit=page_size with cursor 0, page_size, 2*page_size,   *)
(* ...; when the loop runs out after max_pages rounds the items fetched so *)
(* far are returned                                                        *)
CollectPages(method) ==
    Strict(LoopPages(method, 1, max_pages,
                     [more |-> TRUE, outcome |-> Collected(NoItems, <<>>),
                      all_items |-> <<>>, calls |-> <<>>]),
           LAMBDA loop : IF loop.more
                         THEN Collected(SomeItems(loop.all_items), loop.calls)
                         ELSE loop.outcome)

unpaged_limit == 100000

_collect_items(method) ==
    IF method.cursor = "none"
    THEN LET kwargs == [limit |-> unpaged_limit, start |-> 0]
         IN  Strict(CallOf(method, 1, 0, unpaged_limit), LAMBDA call :
             IF call.raise # "no" THEN CollectRaised(call.raise, <<kwargs>>)
             ELSE Collected(_normalize_item_list_result(call.result), <<kwargs>>))
    ELSE CollectPages(method)

_ITEM_LIST_METHOD_CANDIDATES == <<"list_items", "get_items", "get_all_items", "list">>
Targets == <<"_item_service", "_api_client">>

(* the candidates in probing order: env maps <<target, name>> to a method  *)
Candidates ==
    [k \in 1..(Len(Targets) * Len(_ITEM_LIST_METHOD_CANDIDATES)) |->
        <<Targets[((k - 1) \div Len(_ITEM_LIST_METHOD_CANDIDATES)) + 1],
          _ITEM_LIST_METHOD_CANDIDATES[((k - 1) % Len(_ITEM_LIST_METHOD_CANDIDATES)) + 1]>>]

MethodOf(env, cand) == IF cand \in DOMAIN env THEN env[cand] ELSE NoMethod

(* [ok, items, probed]: ok is FALSE when RuntimeError is raised; probed is *)
(* the history of the candidates whose method was invoked, in order, each  *)
(* with the keyword arguments of its calls                                 *)
Listed(ok, items, probed) == [ok |-> ok, items |-> items, probed |-> probed]
Probe(k, got) == [candidate |-> k, calls |-> got.calls]

RECURSIVE ListFromLast(_, _)
ListFromLast(env, k) ==
    IF k > Len(Candidates) THEN Listed(FALSE, <<>>, <<>>)
    ELSE Strict(MethodOf(env, Candidates[k]), LAMBDA method :
         IF ~method.callable THEN ListFromLast(env, k + 1)
         ELSE Strict(_collect_items(method), LAMBDA got :
              Strict(ListFromLast(env, k + 1), LAMBDA rest :
                  IF got.raise = "no" /\ got.found.some /\ ~rest.ok
                  THEN Listed(TRUE, got.found.items, <<Probe(k, got)>> \o rest.probed)
                  ELSE [rest EXCEPT !.probed = <<Probe(k, got)>> \o @])))

RECURSIVE ListFrom(_, _)
ListFrom(env, k) ==
    IF k > Len(Candidates) THEN Listed(FALSE, <<>>, <<>>)
    ELSE Strict(MethodOf(env, Candidates[k]), LAMBDA method :
         IF ~method.callable THEN ListFrom(env, k + 1)
         ELSE Strict(_collect_items(method), LAMBDA got :
              IF got.raise = "no" /\ got.found.some
              THEN Listed(TRUE, got.found.items, <<Probe(k, got)>>)
              ELSE Strict(ListFrom(env, k + 1), LAMBDA rest :
                       [rest EXCEPT !.probed = <<Probe(k, got)>> \o @])))

_list_existing_items(env) == ListFrom(env, 1)

KeysOfItems(items) ==
    UNION {SeqToSet(zotero_data_identity_keys(items[k])) : k \in 1..Len(items)}

NotListed == Listed(FALSE, <<>>, <<>>)

(* line 321-330, given what the awaited _list_existing_items gave;         *)
(* [ok, keys]: ok is FALSE when the listing raised                         *)
_load_existing_identity_keys(got) ==
    [ok |-> got.ok, keys |-> KeysOfItems(got.items)]

-----------------------------------------------------------------------------
(* Collection resolution.  A collection identifier is written one          *)
(* character per symbol.                                                   *)

Alnum == {"A", "B", "a", "b", "x", "X", "0", "1", "2", "3", "4", "5", "6", "7",
          "8", "9", "I", "n", "o", "i", "N", "O"}

_looks_like_collection_key(value) ==
    Len(value) = 8 /\ \A k \in 1..Len(value) : value[k] \in Alnum

casefold(s) ==
    [k \in 1..Len(s) |->
        CASE s[k] = "I" -> "i" [] s[k] = "N" -> "n" [] s[k] = "O" -> "o"
          [] OTHER -> Lower(s[k])]

(* get_collections: absent, raising, or returning raw_collections          *)
NoGetCollections == [callable |-> FALSE, raises |-> FALSE, islist |-> FALSE, items |-> <<>>]
GetCollectionsRaises == [callable |-> TRUE, raises |-> TRUE, islist |-> FALSE, items |-> <<>>]
GetCollectionsReturns(items) ==
    [callable |-> TRUE, raises |-> FALSE, islist |-> TRUE, items |-> items]
GetCollectionsNotAList ==
    [callable |-> TRUE, raises |-> FALSE, islist |-> FALSE, items |-> <<>>]

(* the loop stops at the first name that matches, in whatever case         *)
RECURSIVE MatchFirstAny(_, _, _)
MatchFirstAny(items, value, casefold_match_key) ==
    IF items = <<>> THEN [exact |-> None, casefold |-> casefold_match_key]
    ELSE LET item == Head(items)
             data == IF "data" \in DOMAIN item THEN item["data"] ELSE item
             name == Field(data, "name")
             key == IF Truthy(Field(item, "key")) THEN Field(item, "key")
                    ELSE Field(data, "key")
         IN  IF name = None \/ key = None
             THEN MatchFirstAny(Tail(items), value, casefold_match_key)
             ELSE IF casefold(name) = casefold(value)
             THEN [exact |-> key, casefold |-> casefold_match_key]
             ELSE MatchFirstAny(Tail(items), value, casefold_match_key)

(* the loop over raw_collections: [exact, casefold] match keys, None if    *)
(* not found                                                               *)
RECURSIVE MatchCollections(_, _, _)
MatchCollections(items, value, casefold_match_key) ==
    IF items = <<>> THEN [exact |-> None, casefold |-> casefold_match_key]
    ELSE LET item == Head(items)
             data == IF "data" \in DOMAIN item THEN item["data"] ELSE item
             name == Field(data, "name")
             key == IF Truthy(Field(item, "key")) THEN Field(item, "key")
                    ELSE Field(data, "key")
         IN  IF name = None \/ key = None
             THEN MatchCollections(Tail(items), value, casefold_match_key)
             ELSE IF name = value
             THEN [exact |-> key, casefold |-> casefold_match_key]
             ELSE IF casefold_match_key = None /\ casefold(name) = casefold(value)
             THEN MatchCollections(Tail(items), value, key)
             ELSE MatchCollections(Tail(items), value, casefold_match_key)

(* the resolved identifier, or None                                        *)
_resolve_collection_key(cid, env) ==
    IF ~Truthy(cid) THEN None
    ELSE LET value == Strip(cid)
             m == MatchCollections(env.items, value, None)
         IN  IF value = <<>> THEN None
             ELSE IF _looks_like_collection_key(value) THEN value
             ELSE IF ~env.callable THEN value
             ELSE IF env.raises THEN value
             ELSE IF ~env.islist THEN value
             ELSE IF Truthy(m.exact) THEN m.exact
             ELSE IF Truthy(m.casefold) THEN m.casefold
             ELSE value

-----------------------------------------------------------------------------
(* The inputs of a run.                                                    *)

D20250308 == <<"2025", "03", "08">>

PaperA ==
    With(With(With(PaperItem(<<"A">>), "doi", <<"10.1/", "X">>),
              "published_date", D20250308), "url", <<"https://", "x.com", "/p">>)
(* same DOI as PaperA up to prefix and case, nothing else in common        *)
PaperB == With(PaperItem(<<"A", " ", "variant">>), "doi", <<"HTTPS://DOI.ORG/", "10.1/", "x">>)
(* same URL as PaperA up to the query string, another title                *)
PaperC ==
    With(With(PaperItem(<<"B">>), "published_date", D20250308),
         "url", <<"https://", "x.com", "/p", "?", "utm=1">>)
(* same title and date as PaperA, no DOI, no URL                           *)
PaperD == With(PaperItem(<<"a">>), "published_date", D20250308)
(* a title only                                                            *)
PaperE == PaperItem(<<"C">>)
(* a preprint                                                              *)
PaperF ==
    [PaperItem(<<"F">>) EXCEPT
        !["doi"] = <<"doi:", "10.2/", "y">>,
        !["item_type"] = <<"Preprint">>,
        !["publication_title"] = <<"arXiv">>,
        !["journal_abbreviation"] = <<"J. Test">>,
        !["issn"] = <<"1234-5678">>,
        !["volume"] = <<"1">>,
        !["issue"] = <<"2">>,
        !["pages"] = <<"3-4">>,
        !["publisher"] = <<"Press">>,
        !["published_date"] = D20250308,
        !["url"] = <<"https://", "x.com", "/f">>]

(* the DOI of PaperA in lower case, the same title                         *)
PaperG == With(PaperItem(<<"A">>), "doi", <<"10.1/", "x">>)

Papers == {PaperA, PaperB, PaperC, PaperD, PaperE, PaperF, PaperG}

(* the records with the same DOI written in different ways                 *)
SameDoiPapers == {PaperA, PaperB, PaperG}

(* lists of up to MaxPapers records: PaperG comes with the records that    *)
(* share its DOI                                                           *)
PaperLists ==
    UNION {[1..n -> Papers \ {PaperG}] \cup [1..n -> SameDoiPapers] : n \in 0..MaxPapers}

RemoteDoi ==
    DictItem([data |-> [title |-> <<"Existing">>, DOI |-> <<"10.1/", "x">>,
                        date |-> <<"2024-01-01">>]])
RemoteUrl ==
    DictItem([data |-> [title |-> <<"Old">>, date |-> <<"2025-03-01">>,
                        url |-> <<"https://", "x.com", "/p", "?", "utm=2">>]])
(* a flat item as dumped by a model object: lower-case doi, a year         *)
RemoteYear ==
    ModelItem([title |-> <<"A">>, doi |-> <<"10.2/", "y">>, year |-> PyInt(2025),
               authors |-> CreatorText(<<"Wang">>)])

RemoteTitleDate ==
    DictItem([data |-> [title |-> <<"B">>, date |-> <<"2025", "-", "03", "-", "08">>]])

ListingNone == <<>>
ListingEmpty ==
    (<<"_item_service", "list_items">> :> Method("none", <<Returns(ListResult(<<>>))>>))
ListingDoi ==
    (<<"_item_service", "list_items">> :> Method("none", <<Returns(ListResult(<<RemoteDoi, RemoteTitleDate>>))>>))
ListingFallback ==
    (<<"_item_service", "list_items">> :> Method("none", <<Raises("TypeError")>>))
    @@ (<<"_item_service", "get_items">> :> Method("none", <<Raises("Exception")>>))
    @@ (<<"_api_client", "get_all_items">> :>
            Method("start", <<Returns(WrappedResult(<<RemoteUrl, RemoteYear>>))>>))
StoreTotal == 251
(* list_items(limit, start) over a store of 251 items                      *)
ListingPaged ==
    (<<"_item_service", "list_items">> :> PagedService("start", StoreTotal))
(* get_items(limit, offset) over a store of one item more than a page      *)
ListingPagedTwice ==
    (<<"_item_service", "get_items">> :> PagedService("offset", page_size + 1))
ListingRaises ==
    (<<"_item_service", "list_items">> :> Method("start", <<Raises("Exception")>>))
    @@ (<<"_api_client", "list">> :> Method("none", <<Returns(OtherResult)>>))
(* list_items returns something that is not an item list, without raising *)
ListingUnrecognised ==
    (<<"_item_service", "list_items">> :> Method("none", <<Returns(OtherResult)>>))
    @@ (<<"_item_service", "get_items">> :>
            Method("none", <<Returns(ListResult(<<RemoteDoi>>))>>))
    @@ (<<"_api_client", "list_items">> :>
            Method("none", <<Returns(ListResult(<<RemoteUrl>>))>>))
(* list_items(limit, start) returns a full page and then raises            *)
ListingFailsMidway ==
    (<<"_item_service", "list_items">> :>
         Method("start", <<Returns(ListResult(StoreSlice(page_size, 0, page_size))),
                           Raises("Exception")>>))
    @@ (<<"_item_service", "get_all_items">> :>
            Method("none", <<Returns(ListResult(<<RemoteDoi>>))>>))
    @@ (<<"_api_client", "list">> :>
            Method("none", <<Returns(ListResult(<<RemoteUrl>>))>>))
(* a row that does not coerce: an object with none of the known attributes *)
Uncoercible == AttrItem([note |-> <<"n">>])
(* list_items(limit, start) over a store of one item more than a page,     *)
(* whose first row does not coerce                                         *)
ListingHole ==
    (<<"_item_service", "list_items">> :>
         Method("start",
                <<Returns(ListResult([k \in 1..page_size |->
                                         IF k = 1 THEN Uncoercible ELSE StoreItem(k - 1)])),
                  Returns(ListResult(<<StoreItem(page_size)>>))>>))
(* list(limit, offset) over a store that has a full page at every cursor   *)
(* the loader can reach                                                    *)
ListingEndless ==
    (<<"_api_client", "list">> :> PagedService("offset", max_pages * page_size + 1))
(* get_items(limit, offset) returns a full page and then something that is *)
(* not an item list                                                        *)
ListingLostMidway ==
    (<<"_item_service", "get_items">> :>
         Method("offset", <<Returns(ListResult(StoreSlice(page_size, 0, page_size))),
                            Returns(OtherResult)>>))
    @@ (<<"_api_client", "get_items">> :>
            Method("none", <<Returns(WrappedResult(<<RemoteTitleDate>>))>>))

KeyABCD1234 == <<"A", "B", "a", "b", "1", "2", "3", "4">>
NameInbox == <<"I", "n", "b", "o", "x">>
Key866TNWZ9 == <<"8", "6", "6", "T", "N", "W", "Z", "9">>

(* collection_id, get_collections behaviour, listing behaviour             *)
Scenarios ==
    { <<None, NoGetCollections, ListingNone>>,
      <<None, NoGetCollections, ListingEmpty>>,
      <<KeyABCD1234, NoGetCollections, ListingDoi>>,
      <<NameInbox,
        GetCollectionsReturns(<<[key |-> Key866TNWZ9, data |-> [name |-> NameInbox]]>>),
        ListingFallback>>,
      <<NameInbox, GetCollectionsRaises, ListingRaises>> }

KeyAAAA1111 == <<"A", "A", "A", "A", "1", "1", "1", "1">>
KeyBBBB2222 == <<"B", "B", "B", "B", "2", "2", "2", "2">>
NameINbox == <<"I", "N", "b", "o", "x">>
Nameinbox == <<"i", "n", "b", "o", "x">>
NameBox == <<"b", "o", "x">>
(* the name Inbox typed with surrounding blanks                            *)
SpacedInbox == <<" ", "I", "n", "b", "o", "x", " ">>

(* entries of a collection listing: nested under data, or flat             *)
NestedCollection(key, name) == [key |-> key, data |-> [name |-> name]]
FlatCollection(key, name) == [key |-> key, name |-> name]
(* the exact name comes after two names that differ from it in case        *)
CollectionsExactLast ==
    GetCollectionsReturns(<<NestedCollection(KeyAAAA1111, Nameinbox),
                            FlatCollection(KeyBBBB2222, NameINbox),
                            NestedCollection(Key866TNWZ9, NameInbox)>>)
CollectionsFoldOnly ==
    GetCollectionsReturns(<<FlatCollection(Key866TNWZ9, NameBox),
                            [data |-> [name |-> NameInbox]],
                            NestedCollection(KeyBBBB2222, NameINbox),
                            NestedCollection(KeyAAAA1111, Nameinbox)>>)
CollectionsNoMatch ==
    GetCollectionsReturns(<<NestedCollection(Key866TNWZ9, NameBox)>>)

(* further collection set-ups, run with the short paper lists              *)
CollectionScenarios ==
    { <<NameInbox, CollectionsExactLast, ListingEmpty>>,
      <<NameInbox, CollectionsFoldOnly, ListingEmpty>>,
      <<NameInbox, CollectionsNoMatch, ListingEmpty>>,
      <<NameInbox, GetCollectionsNotAList, ListingEmpty>>,
      <<NameInbox, NoGetCollections, ListingEmpty>>,
      <<SpacedInbox, CollectionsExactLast, ListingEmpty>>,
      <<SpacedInbox, GetCollectionsRaises, ListingEmpty>>,
      <<None, NoGetCollections, ListingPaged>>,
      <<None, NoGetCollections, ListingPagedTwice>>,
      <<None, NoGetCollections, ListingUnrecognised>>,
      <<None, NoGetCollections, ListingFailsMidway>>,
      <<None, NoGetCollections, ListingLostMidway>>,
      <<None, NoGetCollections, ListingHole>>,
      <<None, NoGetCollections, ListingEndless>> }

ShortPaperLists == {<<>>, <<PaperA>>, <<PaperF>>}

(* create results, from the shapes the tests use                           *)
ResultCreated ==
    Mapping([created |-> ListV(<<EmptyDict>>), skipped_duplicates |-> ListV(<<>>),
             failed |-> ListV(<<>>)])
ResultSkipped ==
    Mapping([created |-> ListV(<<>>), failed |-> ListV(<<>>),
             skipped_duplicates |-> ListV(<<EmptyDict>>)])
ResultFailed ==
    Mapping([successful |-> DictV(<<>>),
             failed |-> DictV(<<DictDetail(<<"invalid collection key">>, None, <<"{..}">>)>>),
             created |-> IntV(0), failed_count |-> IntV(1),
             skipped_duplicates |-> IntV(0)])
ResultOk == Mapping([ok |-> BoolV(TRUE)])
ResultSuccessfulMap ==
    Mapping([successful |-> DictV(<<DictDetail(None, None, <<"{key}">>)>>),
             created |-> IntV(0), failed |-> DictV(<<>>),
             skipped_duplicates |-> IntV(0)])
ResultCreatedCount == Mapping([created_count |-> IntV(MaxInt)])
ResultMixed ==
    Mapping([created |-> IntV(1), failures |-> ListV(<<TextDetail(<<"bad">>)>>)])
(* fields the interpreter does not know, one of them a positive integer    *)
ResultUnknownCount == Mapping([status |-> StrV, count |-> IntV(1)])

CreateResults ==
    {ResultCreated, ResultSkipped, ResultFailed, ResultOk, NotAMapping,
     ResultSuccessfulMap, ResultCreatedCount, ResultMixed, ResultUnknownCount}

ExceptionMessages == {<<"boom">>}

-----------------------------------------------------------------------------
(* ZoteroAdapter.export as a state machine.  pc is "resolve" (before the   *)
(* collection is resolved), "preload" (before the index is loaded), "loop" *)
(* (at the head of the loop over papers), "create" (awaiting create_item   *)
(* for papers[idx]) or "done" (returned); "listing" is the await of        *)
(* _list_existing_items inside the preload.                                *)

(* no create result is being interpreted and no remote item coerced apart  *)
(* from the run                                                            *)
FnNotCalled ==
    /\ interp_pc = "none"
    /\ interp_result = NotAMapping
    /\ interp_counts = <<>>
    /\ interp_error = <<>>
    /\ coerce_pc = "none"
    /\ raw_item = <<>>
    /\ coerce_out = <<>>

(* RSSSource is not part of an export: nothing of it has been constructed.  *)
RssNotConstructed ==
    /\ _feeds = <<>>
    /\ max_concurrent = 0
    /\ rss_pc = "none"
    /\ rss_limit = None
    /\ rss_since = None
    /\ semaphore = 0
    /\ tasks = <<>>
    /\ results = <<>>
    /\ all_papers = <<>>
    /\ out_of_order = FALSE

Init ==
    /\ RssNotConstructed
    /\ FnNotCalled
    /\ pc = "resolve"
    /\ \E sc \in Scenarios \cup CollectionScenarios :
          /\ collection_id = sc[1]
          /\ collections_env = sc[2]
          /\ listing_env = sc[3]
          /\ papers \in IF sc \in Scenarios THEN PaperLists ELSE ShortPaperLists
    /\ collection_keys = <<>>
    /\ listed = NotListed
    /\ existing_key_set = {}
    /\ idx = 1
    /\ zotero_item = <<>>
    /\ success_count = 0
    /\ skipped_count = 0
    /\ skipped_by_key = [doi |-> 0, title_date |-> 0, url |-> 0]
    /\ failures = <<>>
    /\ raised = FALSE
    /\ returned = <<>>
    /\ preloads = 0
    /\ create_calls = <<>>
    /\ outcomes = <<>>

Inputs == <<papers, collection_id, collections_env, listing_env>>

(* line 78-79                                                              *)
ResolveCollection ==
    /\ pc = "resolve"
    /\ LET resolved_collection_id == _resolve_collection_key(collection_id, collections_env)
       IN  collection_keys' = IF Truthy(resolved_collection_id)
                              THEN <<resolved_collection_id>> ELSE <<>>
    /\ pc' = "listing"
    /\ UNCHANGED <<fn_vars, rss_vars, Inputs, listed, existing_key_set, idx, zotero_item, success_count,
                   skipped_count, skipped_by_key, failures, raised, returned,
                   preloads, create_calls, outcomes>>

PreloadPropagates(loaded) ==
    [keys |-> loaded.keys, raise |-> ~loaded.ok]

(* line 80-88: the try/except around the preload: the index export goes on *)
(* with, and whether the exception leaves export                           *)
PreloadGuarded(loaded) ==
    [keys |-> IF loaded.ok THEN loaded.keys ELSE {}, raise |-> FALSE]

(* line 81, 320, 332-357: the remote store is listed                       *)
ListExisting ==
    /\ pc = "listing"
    /\ listed' = _list_existing_items(listing_env)
    /\ preloads' = preloads + 1
    /\ pc' = "preload"
    /\ UNCHANGED <<fn_vars, rss_vars, Inputs, collection_keys, existing_key_set, idx, zotero_item,
                   success_count, skipped_count, skipped_by_key, failures, raised,
                   returned, create_calls, outcomes>>

(* line 80-88, 321-330: the index is built from the listed items           *)
Preload ==
    /\ pc = "preload"
    /\ LET got == PreloadGuarded(_load_existing_identity_keys(listed))
       IN  /\ existing_key_set' = got.keys
           /\ raised' = got.raise
           /\ pc' = IF got.raise THEN "done" ELSE "loop"
    /\ UNCHANGED <<fn_vars, rss_vars, Inputs, collection_keys, listed, idx, zotero_item, success_count,
                   skipped_count, skipped_by_key, failures, returned, preloads,
                   create_calls, outcomes>>

(* line 93-97: the first identity key found in the index, <<>> if none     *)
Hits(identity_keys, key_set) ==
    {k \in 1..Len(identity_keys) : identity_keys[k] \in key_set}

LastMatchV(identity_keys, key_set) ==
    IF Hits(identity_keys, key_set) = {} THEN <<>>
    ELSE identity_keys[CHOOSE k \in Hits(identity_keys, key_set) :
                          \A h \in Hits(identity_keys, key_set) : h <= k]

LastMatch(identity_keys, key_set) ==
    Strict(identity_keys, LAMBDA ks : LastMatchV(ks, key_set))

FirstMatchV(identity_keys, key_set) ==
    IF Hits(identity_keys, key_set) = {} THEN <<>>
    ELSE identity_keys[CHOOSE k \in Hits(identity_keys, key_set) :
                          \A h \in Hits(identity_keys, key_set) : k <= h]

(* a key matches an index entry that is a prefix of it                     *)
IsPrefix(a, b) == Len(a) <= Len(b) /\ SubSeq(b, 1, Len(a)) = a

FirstMatchPrefix(identity_keys, key_set) ==
    Strict(identity_keys, LAMBDA ks :
        LET hits == {k \in 1..Len(ks) :
                        \E e \in key_set : e[1] = ks[k][1] /\ IsPrefix(e[2], ks[k][2])}
        IN  IF hits = {} THEN <<>>
            ELSE ks[CHOOSE k \in hits : \A h \in hits : k <= h])

(* only the key of the highest tier is looked up                           *)
FirstKeyOnly(identity_keys, key_set) ==
    Strict(identity_keys, LAMBDA ks :
        IF ks # <<>> /\ ks[1] \in key_set THEN ks[1] ELSE <<>>)

FirstMatch(identity_keys, key_set) ==
    Strict(identity_keys, LAMBDA ks : FirstMatchV(ks, key_set))

BumpForgets(by_key, kind, n) == (kind :> n) @@ by_key

(* skipped_by_key[kind] = skipped_by_key.get(kind, 0) + n                   *)
Bump(by_key, kind, n) ==
    IF kind \in DOMAIN by_key THEN [by_key EXCEPT ![kind] = @ + n]
    ELSE (kind :> n) @@ by_key

IndexReplaced(key_set, created_n, item) ==
    IF created_n > 0 THEN SeqToSet(zotero_data_identity_keys(item)) ELSE key_set

IndexNeverGrows(key_set, created_n, item) == key_set

(* a created item is also indexed by its bare title                        *)
IndexAddsTitle(key_set, created_n, item) ==
    IF created_n > 0
    THEN key_set \cup SeqToSet(zotero_data_identity_keys(item))
                 \cup {<<"title", item["title"]>>}
    ELSE key_set

(* the DOI of a created item is indexed as it was written                  *)
IndexRawDoi(key_set, created_n, item) ==
    IF created_n > 0
    THEN key_set \cup (IF "DOI" \in DOMAIN item THEN {<<"doi", item["DOI"]>>} ELSE {})
    ELSE key_set

(* the keys of the payload are indexed whatever the create call reported   *)
IndexGrowsAnyway(key_set, created_n, item) ==
    key_set \cup SeqToSet(zotero_data_identity_keys(item))

(* line 122-124                                                            *)
IndexAfterCreate(key_set, created_n, item) ==
    IF created_n > 0 THEN key_set \cup SeqToSet(zotero_data_identity_keys(item))
    ELSE key_set

Outcome(what, key, res, counts, err) ==
    [idx |-> idx, what |-> what, key |-> key, res |-> res, counts |-> counts,
     err |-> err, index_before |-> existing_key_set]

(* line 90-104: the record matches the index                               *)
SkipRecord ==
    /\ pc = "loop"
    /\ idx <= Len(papers)
    /\ LET matched_key == FirstMatch(paper_export_identity_keys(papers[idx]),
                                     existing_key_set)
       IN  /\ matched_key # <<>>
           /\ skipped_count' = skipped_count + 1
           /\ skipped_by_key' = Bump(skipped_by_key, matched_key[1], 1)
           /\ outcomes' = Append(outcomes,
                                 Outcome("skipped", matched_key, NotAMapping, <<0, 0, 0>>, <<>>))
    /\ idx' = idx + 1
    /\ UNCHANGED <<fn_vars, rss_vars, pc, Inputs, collection_keys, listed, existing_key_set, zotero_item,
                   success_count, failures, raised, returned, preloads,
                   create_calls>>

(* create_item is called and the loop goes on without awaiting it          *)
IssueCreateNoAwait ==
    /\ pc = "loop"
    /\ idx <= Len(papers)
    /\ FirstMatch(paper_export_identity_keys(papers[idx]), existing_key_set) = <<>>
    /\ zotero_item' = _paper_to_zotero_item(papers[idx], collection_keys)
    /\ create_calls' = Append(create_calls, [idx |-> idx, item |-> zotero_item'])
    /\ idx' = idx + 1
    /\ UNCHANGED <<fn_vars, rss_vars, pc, Inputs, collection_keys, listed, existing_key_set, success_count,
                   skipped_count, skipped_by_key, failures, raised, returned,
                   preloads, outcomes>>

(* line 90-109: no match, the payload is built and create_item is called   *)
IssueCreate ==
    /\ pc = "loop"
    /\ idx <= Len(papers)
    /\ FirstMatch(paper_export_identity_keys(papers[idx]), existing_key_set) = <<>>
    /\ zotero_item' = _paper_to_zotero_item(papers[idx], collection_keys)
    /\ create_calls' = Append(create_calls, [idx |-> idx, item |-> zotero_item'])
    /\ pc' = "create"
    /\ UNCHANGED <<fn_vars, rss_vars, Inputs, collection_keys, listed, existing_key_set, idx, success_count,
                   skipped_count, skipped_by_key, failures, raised, returned,
                   preloads, outcomes>>

(* line 109-134: create_item returned create_result                        *)
CreateReturns ==
    /\ pc = "create"
    /\ \E create_result \in CreateResults :
          LET counts == _extract_create_result_counts(create_result)
              created_n == counts[1]
              skipped_n == counts[2]
              failed_n == counts[3]
              identity_keys == paper_export_identity_keys(papers[idx])
          IN  /\ success_count' = success_count + created_n
              /\ skipped_count' = skipped_count + skipped_n
              /\ skipped_by_key' =
                    IF skipped_n > 0 /\ identity_keys # <<>>
                    THEN Bump(skipped_by_key, identity_keys[1][1], skipped_n)
                    ELSE skipped_by_key
              /\ existing_key_set' = IndexAfterCreate(existing_key_set, created_n, zotero_item)
              /\ failures' =
                    IF failed_n > 0
                    THEN Append(failures,
                                [title |-> papers[idx].title,
                                 error |-> _summarize_create_failures(create_result, failed_n)])
                    ELSE failures
              /\ outcomes' = Append(outcomes, Outcome("returned", <<>>, create_result, counts, <<>>))
    /\ idx' = idx + 1
    /\ pc' = "loop"
    /\ zotero_item' = <<>>
    /\ UNCHANGED <<fn_vars, rss_vars, Inputs, collection_keys, listed, raised, returned, preloads,
                   create_calls>>

(* the handler records the failure and leaves the loop                     *)
CreateRaisesBreaks ==
    /\ pc = "create"
    /\ \E e \in ExceptionMessages :
          /\ failures' = Append(failures, [title |-> papers[idx].title, error |-> e])
          /\ outcomes' = Append(outcomes, Outcome("raised", <<>>, NotAMapping, <<0, 0, 0>>, e))
    /\ idx' = Len(papers) + 1
    /\ pc' = "loop"
    /\ zotero_item' = <<>>
    /\ UNCHANGED <<fn_vars, rss_vars, Inputs, collection_keys, listed, existing_key_set, success_count,
                   skipped_count, skipped_by_key, raised, returned, preloads,
                   create_calls>>

(* no handler: the exception of create_item leaves export                  *)
CreateRaisesPropagates ==
    /\ pc = "create"
    /\ raised' = TRUE
    /\ pc' = "done"
    /\ UNCHANGED <<fn_vars, rss_vars, Inputs, collection_keys, listed, existing_key_set, idx, zotero_item,
                   success_count, skipped_count, skipped_by_key, failures, returned,
                   preloads, create_calls, outcomes>>

(* line 109, 135-136: create_item raised                                   *)
CreateRaises ==
    /\ pc = "create"
    /\ \E e \in ExceptionMessages :
          /\ failures' = Append(failures, [title |-> papers[idx].title, error |-> e])
          /\ outcomes' = Append(outcomes, Outcome("raised", <<>>, NotAMapping, <<0, 0, 0>>, e))
    /\ idx' = idx + 1
    /\ pc' = "loop"
    /\ zotero_item' = <<>>
    /\ UNCHANGED <<fn_vars, rss_vars, Inputs, collection_keys, listed, existing_key_set, success_count,
                   skipped_count, skipped_by_key, raised, returned, preloads,
                   create_calls>>

(* total is the number of create calls, not of records                     *)
ReturnCountsCalls ==
    /\ pc = "loop"
    /\ idx > Len(papers)
    /\ returned' = <<[success_count |-> success_count, total |-> Len(create_calls),
                      skipped_count |-> skipped_count,
                      skipped_by_key |-> skipped_by_key, failures |-> failures]>>
    /\ pc' = "done"
    /\ UNCHANGED <<fn_vars, rss_vars, Inputs, collection_keys, listed, existing_key_set,
                   idx, zotero_item, success_count, skipped_count, skipped_by_key,
                   failures, raised, preloads, create_calls, outcomes>>

(* line 138-152                                                            *)
Return ==
    /\ pc = "loop"
    /\ idx > Len(papers)
    /\ returned' = <<[success_count |-> success_count, total |-> Len(papers),
                      skipped_count |-> skipped_count,
                      skipped_by_key |-> skipped_by_key, failures |-> failures]>>
    /\ pc' = "done"
    /\ UNCHANGED <<fn_vars, rss_vars, Inputs, collection_keys, listed, existing_key_set, idx,
                   zotero_item, success_count, skipped_count, skipped_by_key,
                   failures, raised, preloads, create_calls, outcomes>>

Next ==
    \/ ResolveCollection
    \/ ListExisting
    \/ Preload
    \/ SkipRecord
    \/ IssueCreate
    \/ CreateReturns
    \/ CreateRaises
    \/ Return

Spec == Init /\ [][Next]_vars

TypeOK ==
    /\ pc \in {"resolve", "listing", "preload", "loop", "create", "done"}
    /\ idx \in 1..(Len(papers) + 1)
    /\ success_count \in Nat /\ skipped_count \in Nat

(* The coroutine is resumed whenever the call it awaits has returned or     *)
(* raised.                                                                 *)
FairSpec == Spec /\ WF_vars(Next)

-----------------------------------------------------------------------------
(* RSSSource (src/src/paper_feed/sources/rss.py).  A feed of the OPML file  *)
(* is modelled together with what the network and the parser give for it:  *)
(* reply is "ok" (the feed is fetched and parsed), "http_error" (the        *)
(* request fails inside _fetch_single_feed, which logs it) or "cancelled"   *)
(* (the task of the feed ends with an exception that _fetch_single_feed     *)
(* does not catch); entries are the entries of the parsed feed, each either *)
(* rejected by the parser (ValueError) or parsed into a PaperItem.          *)

MaxFeeds == 3
MaxConcurrent == 2
MaxLimit == 2

D20250307 == <<"2025", "03", "07">>

DatePart ==
    [s \in {"2025", "03", "07", "08"} |->
        CASE s = "2025" -> 2025 [] s = "03" -> 3 [] s = "07" -> 7 [] s = "08" -> 8]

(* date < date                                                             *)
DateBefore(a, b) ==
    LET x == [k \in 1..3 |-> DatePart[a[k]]]
        y == [k \in 1..3 |-> DatePart[b[k]]]
    IN  \/ x[1] < y[1]
        \/ x[1] = y[1] /\ x[2] < y[2]
        \/ x[1] = y[1] /\ x[2] = y[2] /\ x[3] < y[3]

RssPaper(title, url, published_date) ==
    [PaperItem(title) EXCEPT !["url"] = url, !["published_date"] = published_date]

ParsedEntry(paper) == [valid |-> TRUE, paper |-> paper]
InvalidEntry == [valid |-> FALSE, paper |-> PaperItem(<<>>)]

Url1 == <<"https://", "x.com", "/1">>
Url2 == <<"https://", "x.com", "/2">>
Url4 == <<"https://", "x.com", "/4">>

Feed(url, title, reply, entries) ==
    [url |-> url, title |-> title, reply |-> reply, entries |-> entries]

FeedNature ==
    Feed(<<"https://", "nature.com", "/rss">>, <<"Nature">>, "ok",
         << ParsedEntry(RssPaper(<<"T1">>, Url1, D20250308)),
            InvalidEntry,
            ParsedEntry(RssPaper(<<"T2">>, Url2, None)) >>)

FeedScience ==
    Feed(<<"https://", "science.org", "/rss">>, <<"Science">>, "ok",
         << ParsedEntry(RssPaper(<<"T2", " ", "again">>, Url2, D20250308)),
            ParsedEntry(RssPaper(<<"T3">>, None, D20250308)),
            ParsedEntry(RssPaper(<<"T4">>, Url4, D20250307)) >>)

FeedArxiv ==
    Feed(<<"https://", "arxiv.org", "/rss">>, None, "ok",
         << ParsedEntry(RssPaper(<<"T3">>, None, D20250307)),
            ParsedEntry(RssPaper(<<"T1", " ", "preprint">>, Url1, None)) >>)

FeedDown ==
    Feed(<<"https://", "pnas.org", "/rss">>, <<"PNAS">>, "http_error",
         << ParsedEntry(RssPaper(<<"T5">>, <<"https://", "x.com", "/5">>, None)) >>)

FeedCancelled ==
    Feed(<<"https://", "cell.com", "/rss">>, <<"Cell">>, "cancelled",
         << ParsedEntry(RssPaper(<<"T6">>, <<"https://", "x.com", "/6">>, None)) >>)

Feeds == {FeedNature, FeedScience, FeedArxiv, FeedDown, FeedCancelled}

(* the OPML files of the model: up to MaxFeeds feeds, each listed once     *)
FeedLists ==
    {fs \in UNION {[1..n -> Feeds] : n \in 1..MaxFeeds} :
        \A i, j \in DOMAIN fs : i # j => fs[i] # fs[j]}

(* Optional[int]: <<>> for None, <<n>> for the integer n                   *)
Limits == {<<>>} \cup {<<n>> : n \in 0..MaxLimit}
Sinces == {None, D20250308}

(* the state before the export is called, with nothing to export           *)
ExportNotCalled ==
    /\ pc = "resolve"
    /\ papers = <<>>
    /\ collection_id = None
    /\ collections_env = NoGetCollections
    /\ listing_env = ListingPaged
    /\ collection_keys = <<>>
    /\ listed = NotListed
    /\ existing_key_set = {}
    /\ idx = 1
    /\ zotero_item = <<>>
    /\ success_count = 0
    /\ skipped_count = 0
    /\ skipped_by_key = [doi |-> 0, title_date |-> 0, url |-> 0]
    /\ failures = <<>>
    /\ raised = FALSE
    /\ returned = <<>>
    /\ preloads = 0
    /\ create_calls = <<>>
    /\ outcomes = <<>>

(* RSSSource(...) returned: the OPML file has at least one feed            *)
RssInit ==
    /\ ExportNotCalled
    /\ FnNotCalled
    /\ _feeds \in FeedLists
    /\ max_concurrent \in 0..MaxConcurrent
    /\ rss_pc = "constructed"
    /\ rss_limit = <<>>
    /\ rss_since = None
    /\ semaphore = 0
    /\ tasks = <<>>
    /\ results = <<>>
    /\ all_papers = <<>>
    /\ out_of_order = FALSE

(* lines 183-236: the papers of one feed; an error of the request is       *)
(* logged and leaves the list empty, an entry the parser rejects or that   *)
(* is older than since is left out                                         *)
_fetch_single_feed(feed, since_arg) ==
    IF feed.reply # "ok" THEN <<>>
    ELSE LET Keep(entry) ==
                 /\ entry.valid
                 /\ ~ ( /\ since_arg # None
                        /\ entry.paper.published_date # None
                        /\ DateBefore(entry.paper.published_date, since_arg) )
             kept == SelectSeq(feed.entries, Keep)
         IN  [k \in 1..Len(kept) |-> kept[k].paper]

Pending == [t |-> "pending", papers |-> <<>>]
ResultList(found) == [t |-> "list", papers |-> found]
ResultException == [t |-> "exception", papers |-> <<>>]

(* lines 121-133: the semaphore and one task per feed, in feed order       *)
CallFetchPapers ==
    /\ rss_pc = "constructed"
    /\ \E l \in Limits, s \in Sinces : rss_limit' = l /\ rss_since' = s
    /\ semaphore' = max_concurrent
    /\ tasks' = [i \in 1..Len(_feeds) |-> "waiting"]
    /\ results' = [i \in 1..Len(_feeds) |-> Pending]
    /\ rss_pc' = "gather"
    /\ UNCHANGED <<fn_vars, export_vars, _feeds, max_concurrent, all_papers, out_of_order>>

(* line 124, entering "async with semaphore"                               *)
Acquire(i) ==
    /\ rss_pc = "gather"
    /\ i \in DOMAIN tasks
    /\ tasks[i] = "waiting"
    /\ semaphore > 0
    /\ semaphore' = semaphore - 1
    /\ tasks' = [tasks EXCEPT ![i] = "fetching"]
    /\ UNCHANGED <<fn_vars, export_vars, _feeds, max_concurrent, rss_pc, rss_limit, rss_since,
                   results, all_papers, out_of_order>>

EarlierUnfinished(i) == \E j \in 1..(i - 1) : tasks[j] # "done"

FetchReturnsInArrivalOrder(i) ==
    /\ rss_pc = "gather"
    /\ i \in DOMAIN tasks
    /\ tasks[i] = "fetching"
    /\ _feeds[i].reply # "cancelled"
    /\ LET slot == CHOOSE k \in DOMAIN results :
                       /\ results[k] = Pending
                       /\ \A j \in 1..(k - 1) : results[j] # Pending
       IN  results' = [results EXCEPT
                          ![slot] = ResultList(_fetch_single_feed(_feeds[i], rss_since))]
    /\ semaphore' = semaphore + 1
    /\ tasks' = [tasks EXCEPT ![i] = "done"]
    /\ out_of_order' = (out_of_order \/ EarlierUnfinished(i))
    /\ UNCHANGED <<fn_vars, export_vars, _feeds, max_concurrent, rss_pc, rss_limit, rss_since,
                   all_papers>>

(* lines 124-130: _fetch_single_feed returns, the semaphore is released    *)
(* and gather keeps the list in the slot of the feed                       *)
FetchReturns(i) ==
    /\ rss_pc = "gather"
    /\ i \in DOMAIN tasks
    /\ tasks[i] = "fetching"
    /\ _feeds[i].reply # "cancelled"
    /\ results' = [results EXCEPT
                      ![i] = ResultList(_fetch_single_feed(_feeds[i], rss_since))]
    /\ semaphore' = semaphore + 1
    /\ tasks' = [tasks EXCEPT ![i] = "done"]
    /\ out_of_order' = (out_of_order \/ EarlierUnfinished(i))
    /\ UNCHANGED <<fn_vars, export_vars, _feeds, max_concurrent, rss_pc, rss_limit, rss_since,
                   all_papers>>

(* lines 124-133: the task ends with an exception, the semaphore is        *)
(* released and gather (return_exceptions=True) keeps the exception in the *)
(* slot of the feed                                                        *)
FetchRaises(i) ==
    /\ rss_pc = "gather"
    /\ i \in DOMAIN tasks
    /\ tasks[i] = "fetching"
    /\ _feeds[i].reply = "cancelled"
    /\ results' = [results EXCEPT ![i] = ResultException]
    /\ semaphore' = semaphore + 1
    /\ tasks' = [tasks EXCEPT ![i] = "done"]
    /\ out_of_order' = (out_of_order \/ EarlierUnfinished(i))
    /\ UNCHANGED <<fn_vars, export_vars, _feeds, max_concurrent, rss_pc, rss_limit, rss_since,
                   all_papers>>

(* line 149: paper.url or paper.title                                      *)
DedupKey(paper) == IF Truthy(paper.url) THEN paper.url ELSE paper.title

Aggregated(found, seen_urls) == [all_papers |-> found, seen_urls |-> seen_urls]

(* lines 147-152: the loop over the papers of one result                   *)
RECURSIVE AddPapers(_, _, _)
AddPapers(result, j, acc) ==
    IF j > Len(result) THEN acc
    ELSE LET paper == result[j]
             key == DedupKey(paper)
         IN  IF Truthy(key) /\ key \notin acc.seen_urls
             THEN AddPapers(result, j + 1,
                            Aggregated(Append(acc.all_papers, paper),
                                       acc.seen_urls \cup {key}))
             ELSE AddPapers(result, j + 1, acc)

(* lines 139-152: the loop over results, skipping the exceptions           *)
RECURSIVE AggregateResults(_, _, _)
AggregateResults(gathered, i, acc) ==
    IF i > Len(gathered) THEN acc
    ELSE IF gathered[i].t = "exception"
         THEN AggregateResults(gathered, i + 1, acc)
         ELSE AggregateResults(gathered, i + 1, AddPapers(gathered[i].papers, 1, acc))

(* lines 155-156: if limit and len(all_papers) > limit                     *)
ApplyLimit(found, limit_arg) ==
    IF limit_arg # <<>> /\ limit_arg[1] # 0 /\ Len(found) > limit_arg[1]
    THEN SubSeq(found, 1, limit_arg[1])
    ELSE found

(* lines 133-161: gather returns when every task is done                   *)
ReturnPapers ==
    /\ rss_pc = "gather"
    /\ \A i \in DOMAIN tasks : tasks[i] = "done"
    /\ all_papers' = ApplyLimit(AggregateResults(results, 1, Aggregated(<<>>, {})).all_papers,
                                rss_limit)
    /\ rss_pc' = "done"
    /\ UNCHANGED <<fn_vars, export_vars, _feeds, max_concurrent, rss_limit, rss_since, semaphore,
                   tasks, results, out_of_order>>

RssNext ==
    \/ CallFetchPapers
    \/ \E i \in 1..MaxFeeds : Acquire(i)
    \/ \E i \in 1..MaxFeeds : FetchReturns(i)
    \/ \E i \in 1..MaxFeeds : FetchRaises(i)
    \/ ReturnPapers

RssSpec == RssInit /\ [][RssNext]_vars

-----------------------------------------------------------------------------
(* Properties of the export run.                                           *)

KeysOf(k) == SeqToSet(paper_export_identity_keys(papers[k]))

(* what the preload returned, or nothing if it failed                      *)
Preloaded == KeysOfItems(_list_existing_items(listing_env).items)

PreloadFailed == ~_list_existing_items(listing_env).ok

Processed == 1..Len(outcomes)

Created(k) == outcomes[k].what = "returned" /\ outcomes[k].counts[1] > 0

HasCreateCall(k) == \E c \in 1..Len(create_calls) : create_calls[c].idx = k

Last(s) == s[Len(s)]

(* a step that interprets the result of a create call                      *)
ReturnStep == Len(outcomes') = Len(outcomes) + 1 /\ Last(outcomes').what = "returned"
(* a step that handles an exception of a create call                       *)
RaiseStep == Len(outcomes') = Len(outcomes) + 1 /\ Last(outcomes').what = "raised"
(* the record at the head of the loop is about to be checked               *)
AtCheck == pc = "loop" /\ idx <= Len(papers)

(* the kind of the first key of hits in the tier order doi, title_date, url *)
TierKind(hits) ==
    IF \E h \in hits : h[1] = "doi" THEN "doi"
    ELSE IF \E h \in hits : h[1] = "title_date" THEN "title_date"
    ELSE "url"

(* C1: two records with a common identity key that was not preloaded: once *)
(* the create call of the first reported created > 0, the second is        *)
(* skipped without a create call, and the remote store is listed at most   *)
(* once in the run.                                                        *)
C1_SecondIsSkipped ==
    /\ preloads <= 1
    /\ \A i \in Processed : \A j \in Processed :
          (i < j /\ Created(i) /\ (KeysOf(i) \cap KeysOf(j)) \ Preloaded # {})
              => /\ HasCreateCall(i)
                 /\ outcomes[j].what = "skipped"
                 /\ ~HasCreateCall(j)

C1_Witness ==
    \E i \in Processed : \E j \in Processed :
        /\ i < j /\ Created(i) /\ (KeysOf(i) \cap KeysOf(j)) \ Preloaded # {}
        /\ papers[i] # papers[j]
        /\ outcomes[j].what = "skipped"
        /\ preloads = 1

(* C2: the index holds the preloaded keys (none if the preload failed) and *)
(* the keys of every record whose create call reported created > 0, and    *)
(* nothing is ever removed from it.                                        *)
C2_IndexContents ==
    IF pc \in {"resolve", "listing", "preload"} THEN existing_key_set = {}
    ELSE existing_key_set =
            Preloaded \cup UNION {KeysOf(k) : k \in {n \in Processed : Created(n)}}

C2_IndexInvariant ==
    [](C2_IndexContents) /\ [][existing_key_set \subseteq existing_key_set']_vars

C2_Witness ==
    /\ Preloaded # {}
    /\ \E k \in Processed : Created(k) /\ KeysOf(k) # {} /\ KeysOf(k) \cap Preloaded = {}
    /\ pc = "done"

(* C3: a record is skipped by the pre-check exactly when one of its keys   *)
(* is in the index, and the kind counted is that of the first such key in  *)
(* the order doi, title_date, url.                                         *)
C3_SkipIffMatch ==
    [][AtCheck =>
        LET hits == KeysOf(idx) \cap existing_key_set
        IN  IF hits = {}
            THEN pc' = "create" /\ skipped_by_key' = skipped_by_key
                 /\ skipped_count' = skipped_count
            ELSE /\ pc' = "loop" /\ idx' = idx + 1
                 /\ Last(outcomes').what = "skipped"
                 /\ skipped_by_key' =
                        [skipped_by_key EXCEPT ![TierKind(hits)] = @ + 1]]_vars

(* a DOI match is reported as doi although title+date and url also match   *)
(* nothing, and a title+date match of a record without DOI is title_date   *)
C3_Witness ==
    /\ \E k \in Processed :
          /\ outcomes[k].what = "skipped" /\ outcomes[k].key[1] = "title_date"
          /\ ~Present(papers[k].doi)
    /\ \E k \in Processed :
          /\ outcomes[k].what = "skipped" /\ outcomes[k].key[1] = "doi"
          /\ Cardinality(KeysOf(k) \cap outcomes[k].index_before) = 1
          /\ Cardinality(KeysOf(k)) = 3

(* C4: when the record at the head of the loop matches the index, the step *)
(* issues no create call, adds 1 to skipped_count and to exactly one entry *)
(* of skipped_by_key, and leaves success_count, failures and the index     *)
(* unchanged.                                                              *)
C4_SkipFrame ==
    [][(AtCheck /\ KeysOf(idx) \cap existing_key_set # {}) =>
        /\ create_calls' = create_calls
        /\ pc' # "create"
        /\ skipped_count' = skipped_count + 1
        /\ \E kind \in DOMAIN skipped_by_key :
              skipped_by_key' = [skipped_by_key EXCEPT ![kind] = @ + 1]
        /\ success_count' = success_count
        /\ failures' = failures
        /\ existing_key_set' = existing_key_set]_vars

(* a second skip of the same kind in one run                               *)
C4_Witness ==
    /\ Len(outcomes) >= 2
    /\ outcomes[1].what = "skipped" /\ outcomes[2].what = "skipped"
    /\ skipped_by_key["doi"] = 2
    /\ create_calls = <<>>

(* the number of create calls that have neither returned nor raised        *)
InFlight ==
    Len(create_calls)
        - Cardinality({k \in Processed : outcomes[k].what \in {"returned", "raised"}})

(* C5: records are processed in input order with at most one create call   *)
(* in flight: a record is checked against the index only when every        *)
(* earlier record has its outcome and the keys of every earlier created    *)
(* record are in the index, and create calls are issued in input order.    *)
C5_Sequential ==
    /\ InFlight \in {0, 1}
    /\ InFlight = 1 <=> pc = "create"
    /\ \A k \in Processed : outcomes[k].idx = k
    /\ pc \in {"loop", "create"} => Len(outcomes) = idx - 1
    /\ pc = "create" => Last(create_calls).idx = idx
    /\ pc = "loop" => \A k \in Processed : Created(k) => KeysOf(k) \subseteq existing_key_set
    /\ \A c \in 1..Len(create_calls) : \A d \in 1..Len(create_calls) :
          c < d => create_calls[c].idx < create_calls[d].idx

C5_Witness ==
    /\ AtCheck /\ idx = 2
    /\ Created(1) /\ KeysOf(1) # {}
    /\ Len(create_calls) = 1

(* C6: if the preload raises, export does not raise and goes on with an    *)
(* empty index: a processed record has no create call exactly when it      *)
(* shares a key with an earlier record of the run that was created.        *)
C6_PreloadFailureTolerated ==
    PreloadFailed =>
        /\ ~raised
        /\ (pc = "loop" /\ idx = 1) => existing_key_set = {}
        /\ pc # "done" \/ Len(outcomes) = Len(papers)
        /\ \A k \in Processed :
              ~HasCreateCall(k) <=>
                  \E i \in 1..(k - 1) : Created(i) /\ KeysOf(i) \cap KeysOf(k) # {}

C6_Witness ==
    /\ PreloadFailed
    /\ pc = "done"
    /\ Len(papers) = 2
    /\ Created(1) /\ outcomes[2].what = "skipped"
    /\ papers[1] # papers[2]

(* C7: an exception while a record is processed is caught: one failure     *)
(* entry with the record's title and the exception's message is appended,  *)
(* success_count, skipped_count and the index are unchanged, and every     *)
(* later record is still processed.                                        *)
C7_RaiseFrame ==
    RaiseStep =>
        /\ failures' = Append(failures, [title |-> papers[idx].title,
                                         error |-> Last(outcomes').err])
        /\ Last(outcomes').err \in ExceptionMessages
        /\ success_count' = success_count
        /\ skipped_count' = skipped_count
        /\ skipped_by_key' = skipped_by_key
        /\ existing_key_set' = existing_key_set
        /\ ~raised'
        /\ pc' = "loop" /\ idx' = idx + 1

ResultFields == {"success_count", "total", "skipped_count", "skipped_by_key", "failures"}

(* C8: whatever the remote operations return or raise, export terminates   *)
(* and returns a mapping with the five result fields; no exception leaves  *)
(* it.                                                                     *)
C8_Terminates ==
    /\ <>(pc = "done" /\ Len(returned) = 1)
    /\ [](~raised)
    /\ [](pc = "done" => /\ Len(returned) = 1
                         /\ DOMAIN returned[1] = ResultFields
                         /\ returned[1].total = Len(papers))

C8_Witness ==
    /\ pc = "done" /\ Len(returned) = 1
    /\ PreloadFailed
    /\ collections_env.raises
    /\ \E k \in Processed : outcomes[k].what = "raised"

(* the count fields the interpreter is specified to recognize              *)
RecognizedFields ==
    {"created", "skipped_duplicates", "skipped", "failed", "failures", "successful",
     "created_count", "success_count", "inserted_count", "skipped_count",
     "duplicate_count", "failed_count", "error_count"}

Unrecognized(res) == ~res.isdict \/ DOMAIN res.f \cap RecognizedFields = {}

(* C9: a create result that is no mapping, or a mapping without any        *)
(* recognized count field, counts as (0, 0, 0): nothing is added to        *)
(* success_count or skipped_count, no failure is recorded and no key is    *)
(* added to the index.                                                     *)
C9_UnknownShapeCountsNothing ==
    [][(ReturnStep /\ Unrecognized(Last(outcomes').res)) =>
        /\ Last(outcomes').counts = <<0, 0, 0>>
        /\ success_count' = success_count
        /\ skipped_count' = skipped_count
        /\ skipped_by_key' = skipped_by_key
        /\ failures' = failures
        /\ existing_key_set' = existing_key_set]_vars

C9_Witness ==
    /\ pc = "done"
    /\ Len(outcomes) = 2
    /\ outcomes[1].what = "returned" /\ outcomes[1].res = ResultOk
    /\ outcomes[2].what = "returned" /\ ~outcomes[2].res.isdict
    /\ KeysOf(1) # {}
    /\ returned[1].success_count = 0 /\ returned[1].failures = <<>>

SuccessfulMap(res) ==
    /\ res.isdict
    /\ Get(res, "successful").t = "dict" /\ Get(res, "successful").items # <<>>
    /\ _count(Get(res, "created")) = 0

(* C10: a create result with a non-empty successful map and created 0 or   *)
(* absent counts as created: success_count grows by the number of entries  *)
(* of the map and the record's keys enter the index.                       *)
C10_SuccessfulMapCounts ==
    [][(ReturnStep /\ SuccessfulMap(Last(outcomes').res)) =>
        /\ success_count' = success_count + Len(Get(Last(outcomes').res, "successful").items)
        /\ KeysOf(idx) \subseteq existing_key_set']_vars

(* C11: a record that derives no identity key is never skipped by the      *)
(* pre-check: a create call is issued for it each time it appears, also    *)
(* after an identical record was created in the run, and interpreting its  *)
(* create result adds no key to the index.                                 *)
C11_ZeroKeysAlwaysCreated ==
    /\ [](\A k \in Processed :
            KeysOf(k) = {} => outcomes[k].what # "skipped" /\ HasCreateCall(k))
    /\ [][(AtCheck /\ KeysOf(idx) = {}) =>
            (pc' = "create" /\ Last(create_calls').idx = idx)]_vars
    /\ [][(ReturnStep /\ KeysOf(idx) = {}) =>
            existing_key_set' = existing_key_set]_vars

(* the same title-only record twice, created both times                    *)
C11_Witness ==
    /\ pc = "done"
    /\ papers = <<PaperE, PaperE>>
    /\ Created(1) /\ Created(2)
    /\ Len(create_calls) = 2
    /\ existing_key_set = Preloaded

(* the kind a skip reported by the create call is attributed to            *)
AttributedKind(k) ==
    IF paper_export_identity_keys(papers[k]) # <<>>
    THEN paper_export_identity_keys(papers[k])[1][1] ELSE "unknown"

(* C12: when the create call reports skipped items, their number is added  *)
(* to skipped_count and to the entry of skipped_by_key for the kind of the *)
(* record's first derived key, or for "unknown" if it derived none.        *)
C12_RuntimeSkipAttributed ==
    [][(ReturnStep /\ Last(outcomes').counts[2] > 0) =>
        LET skipped_n == Last(outcomes').counts[2]
            kind == AttributedKind(idx)
        IN  /\ skipped_count' = skipped_count + skipped_n
            /\ kind \in DOMAIN skipped_by_key'
            /\ skipped_by_key'[kind] =
                  (IF kind \in DOMAIN skipped_by_key THEN skipped_by_key[kind] ELSE 0)
                      + skipped_n]_vars

(* the prefixes a DOI may be written with, in either case                  *)
DoiPrefixForms == {"https://doi.org/", "http://doi.org/", "doi:",
                   "HTTPS://DOI.ORG/", "HTTP://DOI.ORG/", "DOI:"}

(* the ways of writing the DOI 10.1/x                                      *)
DoiVariants ==
    {core : core \in {<<"10.1/", "X">>, <<"10.1/", "x">>}}
        \cup {<<p>> \o core : p \in DoiPrefixForms,
                              core \in {<<"10.1/", "X">>, <<"10.1/", "x">>}}

DoiKey(paper) == paper_export_identity_keys(paper)[1]

(* C13: DOIs that differ only by a leading https://doi.org/,               *)
(* http://doi.org/ or doi: prefix or by letter case give the same doi key: *)
(* writing the DOI of a record of the run with a prefix does not change    *)
(* its key, two records of the run whose DOIs are ways of writing 10.1/x   *)
(* have the same key, and when two such records are exported against an   *)
(* index without that key and the first is created, the second is skipped  *)
(* and the run ends with skipped_by_key.doi = 1.                            *)
C13_DoiVariantsOneKey ==
    /\ \A k \in 1..Len(papers) :
          (Present(papers[k].doi) /\ Head(papers[k].doi) \notin DoiPrefixForms)
              => \A p \in DoiPrefixForms :
                    /\ DoiKey(papers[k])[1] = "doi"
                    /\ DoiKey(With(papers[k], "doi", <<p>> \o papers[k].doi))
                          = DoiKey(papers[k])
    /\ \A i \in 1..Len(papers) : \A j \in 1..Len(papers) :
          (papers[i].doi \in DoiVariants /\ papers[j].doi \in DoiVariants)
              => DoiKey(papers[i]) = DoiKey(papers[j])
    /\ (/\ pc = "done" /\ Len(papers) = 2
        /\ papers[1].doi \in DoiVariants /\ papers[2].doi \in DoiVariants
        /\ DoiKey(papers[1]) \notin Preloaded
        /\ Created(1) /\ outcomes[1].counts[2] = 0)
          => /\ outcomes[2].what = "skipped" /\ outcomes[2].key[1] = "doi"
             /\ Len(create_calls) = 1
             /\ returned[1].skipped_by_key["doi"] = 1
             /\ returned[1].skipped_count = 1

(* 10.1/X then 10.1/x with the same title, against an empty index          *)
C13_Witness ==
    /\ pc = "done"
    /\ papers = <<PaperA, PaperG>>
    /\ Preloaded = {}
    /\ Created(1)
    /\ outcomes[2].what = "skipped"
    /\ returned[1].skipped_by_key["doi"] = 1

(* a URL without its query string                                          *)
NoQuery(u) ==
    IF \E k \in 1..Len(u) : u[k] = "?"
    THEN SubSeq(u, 1, (CHOOSE k \in 1..Len(u) :
                          u[k] = "?" /\ \A h \in 1..(k - 1) : u[h] # "?") - 1)
    ELSE u

(* the URLs of the preloaded items, without their query strings            *)
PreloadedUrls ==
    {NoQuery(Field(listed.items[k]["data"], "url")) :
        k \in {n \in 1..Len(listed.items) :
                  /\ "data" \in DOMAIN listed.items[n]
                  /\ Present(Field(listed.items[n]["data"], "url"))}}

(* C14: a record without DOI whose title+date key is not in the index but  *)
(* whose URL, query string dropped, is the URL of a preloaded item is      *)
(* skipped with reason url, and no create call is made for it.             *)
C14_UrlFallback ==
    [][(/\ AtCheck
        /\ ~Present(papers[idx].doi)
        /\ Present(papers[idx].url)
        /\ NoQuery(papers[idx].url) \in PreloadedUrls
        /\ ~\E key \in KeysOf(idx) \cap existing_key_set : key[1] = "title_date")
          => /\ pc' = "loop" /\ idx' = idx + 1
             /\ Last(outcomes').what = "skipped" /\ Last(outcomes').key[1] = "url"
             /\ skipped_by_key' = [skipped_by_key EXCEPT !["url"] = @ + 1]
             /\ skipped_count' = skipped_count + 1
             /\ create_calls' = create_calls]_vars

(* the record has a title+date key, which matched nothing                  *)
C14_Witness ==
    \E k \in Processed :
        /\ outcomes[k].what = "skipped" /\ outcomes[k].key[1] = "url"
        /\ ~Present(papers[k].doi)
        /\ \E key \in KeysOf(k) : key[1] = "title_date"
        /\ papers[k].url # NoQuery(papers[k].url)
        /\ ~HasCreateCall(k)

(* the title_date key of record k with only the year of its date           *)
YearKey(k) ==
    <<"title_date",
      normalize_title(papers[k].title) \o <<"|">> \o <<papers[k].published_date[1]>> >>

(* the title_date keys of the index that carry the title of record k       *)
SameTitleKeys(k) ==
    LET t == normalize_title(papers[k].title) \o <<"|">>
    IN  {key \in existing_key_set :
            /\ key[1] = "title_date"
            /\ Len(key[2]) > Len(t) /\ SubSeq(key[2], 1, Len(t)) = t}

(* C15: a bare year does not match a full date of that year: a record with *)
(* a full published_date, no DOI and no URL, for which the index holds its *)
(* title only with the bare year, is not skipped: a create call is issued. *)
C15_BareYearNoMatch ==
    [][(/\ AtCheck
        /\ ~Present(papers[idx].doi) /\ ~Present(papers[idx].url)
        /\ papers[idx].published_date # None
        /\ SameTitleKeys(idx) = {YearKey(idx)})
          => /\ pc' = "create"
             /\ Len(create_calls') = Len(create_calls) + 1
             /\ Last(create_calls').idx = idx
             /\ skipped_count' = skipped_count]_vars

(* the year-only entry comes from an item coerced from a year field        *)
C15_Witness ==
    \E k \in Processed :
        /\ HasCreateCall(k)
        /\ ~Present(papers[k].doi) /\ ~Present(papers[k].url)
        /\ papers[k].published_date # None
        /\ YearKey(k) \in outcomes[k].index_before
        /\ \E n \in 1..Len(listed.items) :
              /\ Field(listed.items[n]["data"], "date") = <<papers[k].published_date[1]>>
              /\ YearKey(k) \in SeqToSet(zotero_data_identity_keys(listed.items[n]))

(* 8 alphanumeric characters                                               *)
KeyFormat(v) == Len(v) = 8 /\ \A k \in 1..Len(v) : v[k] \in Alnum

EntryData(e) == IF "data" \in DOMAIN e THEN e["data"] ELSE e
EntryName(e) == Field(EntryData(e), "name")
EntryKey(e) == IF Truthy(Field(e, "key")) THEN Field(e, "key") ELSE Field(EntryData(e), "key")

(* the entries of the collection listing whose name is v exactly, and in   *)
(* any case                                                                *)
ExactEntries(v) ==
    {k \in 1..Len(collections_env.items) :
        LET e == collections_env.items[k]
        IN  EntryName(e) # None /\ EntryKey(e) # None /\ EntryName(e) = v}
FoldEntries(v) ==
    {k \in 1..Len(collections_env.items) :
        LET e == collections_env.items[k]
        IN  EntryName(e) # None /\ EntryKey(e) # None
            /\ casefold(EntryName(e)) = casefold(v)}

First(S) == CHOOSE k \in S : \A h \in S : k <= h

(* what looking v up in the collection listing gives                       *)
ResolvedByName(v) ==
    IF collections_env.raises \/ ~collections_env.islist THEN v
    ELSE IF ExactEntries(v) # {} THEN EntryKey(collections_env.items[First(ExactEntries(v))])
    ELSE IF FoldEntries(v) # {} THEN EntryKey(collections_env.items[First(FoldEntries(v))])
    ELSE v

(* export has resolved v and every create call so far carries r as its     *)
(* only collection                                                         *)
CarriesOnly(r) ==
    /\ collection_keys = <<r>>
    /\ \A c \in 1..Len(create_calls) :
          /\ "collections" \in DOMAIN create_calls[c].item
          /\ create_calls[c].item["collections"] = <<r>>

C17_NoLookupRaises ==
    (/\ pc # "resolve"
     /\ Truthy(collection_id)
     /\ Strip(collection_id) # <<>> /\ ~KeyFormat(Strip(collection_id))
     /\ ~collections_env.callable)
        => raised

(* the page length the listing is specified to ask for                     *)
ClaimedLimit == 100

(* C18: a listing method that accepts start and limit is read in           *)
(* consecutive pages of limit=100 at start=0, 100, 200, ... up to and      *)
(* including the first page shorter than the limit, and every item of the  *)
(* store is returned exactly once (251 items: three calls).                *)
C18_PagesOfHundred ==
    \A cand \in DOMAIN listing_env :
        (/\ pc \notin {"resolve", "listing"}
         /\ listing_env[cand].paged /\ listing_env[cand].cursor = "start")
          => LET total == listing_env[cand].total
                 pages == (total \div ClaimedLimit) + 1
             IN  /\ _collect_items(listing_env[cand]).calls =
                        [k \in 1..pages |->
                            [limit |-> ClaimedLimit, start |-> ClaimedLimit * (k - 1)]]
                 /\ listed.ok
                 /\ listed.items =
                        [k \in 1..total |->
                            [data |-> [title |-> <<"Paper ", ToString(k - 1)>>]]]

IsPreprint(paper) == LowerAll(Strip(paper.item_type)) = <<"preprint">>

JournalOnlyFields ==
    {"publicationTitle", "journalAbbreviation", "ISSN", "volume", "issue", "pages",
     "publisher"}

(* C19: the payload of a preprint has only allow-listed fields: the        *)
(* journal fields are absent, the publication title is carried as          *)
(* repository, no field is null, and title, DOI, date and url are kept, so *)
(* the payload's identity keys are those of the record and those the       *)
(* payload would have with another item type.                              *)
C19_PreprintPayload ==
    \A c \in 1..Len(create_calls) :
        LET paper == papers[create_calls[c].idx]
            item == create_calls[c].item
        IN  IsPreprint(paper) =>
              /\ DOMAIN item \cap JournalOnlyFields = {}
              /\ DOMAIN item \subseteq PreprintAllowedFields
              /\ Truthy(paper.publication_title) =>
                    ("repository" \in DOMAIN item
                        /\ item["repository"] = paper.publication_title)
              /\ \A f \in DOMAIN item \ {"creators", "collections"} : item[f] # None
              /\ item["title"] = paper.title
              /\ Present(paper.doi) => ("DOI" \in DOMAIN item /\ item["DOI"] = paper.doi)
              /\ Present(paper.url) => ("url" \in DOMAIN item /\ item["url"] = paper.url)
              /\ paper.published_date # None =>
                    ("date" \in DOMAIN item
                        /\ item["date"] = isoformat(paper.published_date))
              /\ SeqToSet(zotero_data_identity_keys(item)) = KeysOf(create_calls[c].idx)
              /\ zotero_data_identity_keys(item) =
                    zotero_data_identity_keys(
                        _paper_to_zotero_item(With(paper, "item_type", <<"journalArticle">>),
                                              collection_keys))

(* a preprint with journal fields, DOI, date and url, sent to a collection *)
C19_Witness ==
    \E c \in 1..Len(create_calls) :
        /\ IsPreprint(papers[create_calls[c].idx])
        /\ Truthy(papers[create_calls[c].idx].volume)
        /\ "repository" \in DOMAIN create_calls[c].item
        /\ "collections" \in DOMAIN create_calls[c].item
        /\ Cardinality(KeysOf(create_calls[c].idx)) = 3

-----------------------------------------------------------------------------
(* Properties of RSSSource.fetch_papers, checked under RssSpec.            *)

FetchesInFlight == {i \in DOMAIN tasks : tasks[i] = "fetching"}

(* what a feed contributes: the papers fetched from it, nothing if the     *)
(* feed fails                                                              *)
Contribution(i) ==
    IF _feeds[i].reply = "ok" THEN _fetch_single_feed(_feeds[i], rss_since) ELSE <<>>

(* the places <<feed, paper>> of the contributed papers, in OPML order     *)
Places == UNION {{<<i, j>> : j \in 1..Len(Contribution(i))} : i \in 1..Len(_feeds)}
PlaceBefore(p, q) == p[1] < q[1] \/ (p[1] = q[1] /\ p[2] < q[2])
PaperAt(p) == Contribution(p[1])[p[2]]
KeyAt(p) ==
    IF PaperAt(p).url # None /\ PaperAt(p).url # <<>> THEN PaperAt(p).url
    ELSE PaperAt(p).title

(* the first paper of each URL, or of each title for papers without URL    *)
FirstPlaces ==
    {p \in Places : /\ KeyAt(p) # <<>>
                    /\ \A q \in Places : PlaceBefore(q, p) => KeyAt(q) # KeyAt(p)}
Rank(p) == Cardinality({q \in FirstPlaces : PlaceBefore(q, p)}) + 1
ExpectedLen ==
    IF rss_limit # <<>> /\ rss_limit[1] > 0 /\ rss_limit[1] < Cardinality(FirstPlaces)
    THEN rss_limit[1] ELSE Cardinality(FirstPlaces)

-----------------------------------------------------------------------------
(* Properties of the listing of the remote store, stated of the state in   *)
(* which _list_existing_items has just returned or raised (pc = "preload"; *)
(* listed does not change afterwards).                                     *)

CandidateMethod(k) == MethodOf(listing_env, Candidates[k])
CallableCandidates == {k \in DOMAIN Candidates : CandidateMethod(k).callable}
(* the whole collection of candidate k completes without raising           *)
Completes(k) ==
    k \in CallableCandidates /\ _collect_items(CandidateMethod(k)).raise = "no"
(* ... and gives an item list                                              *)
GivesList(k) == Completes(k) /\ _collect_items(CandidateMethod(k)).found.some
Least(S) == CHOOSE k \in S : \A j \in S : k <= j
ProbedCandidates == [n \in 1..Len(listed.probed) |-> listed.probed[n].candidate]
(* the candidates of S up to f, in probing order                           *)
UpTo(S, f) ==
    LET T == {k \in S : k <= f}
        NthOf(n) == CHOOSE k \in T : Cardinality({j \in T : j < k}) = n - 1
    IN  [n \in 1..Cardinality(T) |-> NthOf(n)]
(* the items come from candidate f alone and the candidates invoked are    *)
(* the callable ones up to f, in order                                     *)
ListedFrom(f) ==
    /\ listed.items = _collect_items(CandidateMethod(f)).found.items
    /\ ProbedCandidates = UpTo(CallableCandidates, f)

(* C21 as stated: the items come from the first candidate whose whole      *)
(* collection completes without raising, and no later candidate is         *)
(* invoked.                                                                *)
C21_FirstNotRaising ==
    (pc = "preload" /\ listed.ok) =>
        /\ {k \in DOMAIN Candidates : Completes(k)} # {}
        /\ ListedFrom(Least({k \in DOMAIN Candidates : Completes(k)}))

(* C21 amended: candidates are probed in the fixed order; the items come   *)
(* from exactly one candidate, the first whose whole collection completes  *)
(* without raising and gives an item list (a candidate that returns        *)
(* something that is not an item list is passed over like one that         *)
(* raises); no later candidate is invoked, nothing of an earlier candidate *)
(* is included, and the listing fails exactly when there is no such        *)
(* candidate, after every callable candidate was invoked.                  *)
C21_FirstGivingList ==
    pc = "preload" =>
        LET giving == {k \in DOMAIN Candidates : GivesList(k)}
        IN  /\ listed.ok <=> giving # {}
            /\ listed.ok => ListedFrom(Least(giving))
            /\ ~listed.ok => /\ listed.items = <<>>
                             /\ ProbedCandidates =
                                    UpTo(CallableCandidates, Len(Candidates))

(* C21 witness: the first candidate fetched a full page and then raised,   *)
(* the items are those of the second callable candidate, and a third       *)
(* callable candidate was not invoked.                                     *)
C21_Witness ==
    /\ pc = "preload" /\ listed.ok
    /\ Len(listed.probed) = 2
    /\ Len(listed.probed[1].calls) = 2
    /\ _collect_items(CandidateMethod(listed.probed[1].candidate)).raise # "no"
    /\ Cardinality(CallableCandidates) = 3
    /\ Len(listed.items) = 1
    /\ "DOI" \in DOMAIN listed.items[1]["data"]

(* the rows the remote returned to the n-th call of a probed candidate     *)
RowsReturned(probe, n) ==
    LET call == CallOf(CandidateMethod(probe.candidate), n,
                       probe.calls[n].start, probe.calls[n].limit)
    IN  IF call.result.shape = "single" THEN <<DictItem(call.result.d)>>
        ELSE call.result.values
(* the probed candidate pages and its collection ended with an item list   *)
PagedAndCollected(probe) ==
    /\ CandidateMethod(probe.candidate).cursor # "none"
    /\ GivesList(probe.candidate)
RECURSIVE CoercedRows(_, _)
CoercedRows(probe, n) ==
    IF n = 0 THEN <<>>
    ELSE CoercedRows(probe, n - 1) \o _normalize_list(RowsReturned(probe, n))

(* C22: the paged loading of one method makes at most max_pages calls,     *)
(* each asking for page_size rows; it goes on after every page on which    *)
(* the remote returned page_size rows and stops at the first page with     *)
(* fewer rows, or after max_pages pages; every row of the fetched pages    *)
(* that can be coerced is in the result, in order.                         *)
C22_StopsAtShortPage ==
    pc = "preload" =>
        \A n \in 1..Len(listed.probed) :
            LET probe == listed.probed[n]
                made == Len(probe.calls)
            IN  /\ made <= max_pages
                /\ PagedAndCollected(probe) =>
                      /\ \A p \in 1..made : probe.calls[p].limit = page_size
                      /\ \A p \in 1..(made - 1) :
                            Len(RowsReturned(probe, p)) = page_size
                      /\ made = max_pages \/ Len(RowsReturned(probe, made)) < page_size
                      /\ listed.items = CoercedRows(probe, made)

-----------------------------------------------------------------------------
(* The interpretation of one create result, lines 111-134 of export: the   *)
(* counts are extracted, and when failed_n > 0 the failures are summarised *)
(* into the error text of the failure entry.  The result is any mapping of *)
(* the families below, or a value that is no mapping.                      *)

PrimaryFields == {"created", "skipped_duplicates", "skipped", "failed", "failures"}
CreatedAlternates == <<"created_count", "success_count", "inserted_count">>
SkippedAlternates == <<"skipped_count", "duplicate_count">>
FailedAlternates == <<"failed_count", "error_count">>
AlternateFields ==
    SeqToSet(CreatedAlternates) \cup SeqToSet(SkippedAlternates)
        \cup SeqToSet(FailedAlternates)

(* values of a count field: integers, a bool, lists, dicts, a string, None *)
CountValues ==
    {IntV(n) : n \in -1..MaxInt}
        \cup {BoolV(TRUE), StrV, NoneV}
        \cup {ListV([k \in 1..n |-> EmptyDict]) : n \in 0..MaxInt}
        \cup {DictV([k \in 1..n |-> EmptyDict]) : n \in 0..MaxInt}

OneField == {Mapping(name :> v) : name \in PrimaryFields \cup AlternateFields, v \in CountValues}

PrimaryAndAlternate ==
    {Mapping((p :> v) @@ (a :> IntV(n))) :
        p \in PrimaryFields, v \in CountValues, a \in AlternateFields, n \in 1..MaxInt}

TwoAlternates ==
    {Mapping((a :> IntV(m)) @@ (b :> IntV(n))) :
        a \in AlternateFields, b \in AlternateFields, m \in 0..MaxInt, n \in 0..MaxInt}

TwoPrimaries ==
    {Mapping((p :> v) @@ (q :> w)) :
        p \in PrimaryFields, q \in PrimaryFields,
        v \in {IntV(0), IntV(1), ListV(<<EmptyDict, EmptyDict>>), NoneV},
        w \in {IntV(0), IntV(MaxInt), DictV(<<EmptyDict>>), StrV}}

(* entries of failed / failures                                            *)
DetailMessage == DictDetail(<<"m1">>, None, <<"{message: m1}">>)
DetailError == DictDetail(None, <<"m2">>, <<"{error: m2}">>)
DetailBoth == DictDetail(<<"m3">>, <<"m1">>, <<"{message: m3, error: m1}">>)
DetailCode == DictDetail(None, None, <<"{code: 400}">>)
Details == {DetailMessage, DetailError, DetailBoth, DetailCode,
            TextDetail(<<"bad">>), TextDetail(<<>>)}

MaxDetails == 3

DetailLists(n) == UNION {[1..k -> Details] : k \in 0..n}

FailedAndFailures ==
    {Mapping([failed |-> DictV(d), failures |-> ListV(e)]) :
        d \in DetailLists(MaxDetails - 1), e \in DetailLists(MaxDetails - 1)}
        \cup {Mapping([failed |-> DictV(d)]) : d \in DetailLists(MaxDetails)}
        \cup {Mapping([failures |-> ListV(e)]) : e \in DetailLists(MaxDetails)}
        \cup {Mapping([failed |-> ListV(d), failed_count |-> IntV(1)]) :
                d \in DetailLists(1)}

InterpResults ==
    {NotAMapping} \cup CreateResults \cup OneField \cup PrimaryAndAlternate
        \cup TwoAlternates \cup TwoPrimaries \cup FailedAndFailures

(* create_item returned interp_result                                      *)
InterpInit ==
    /\ ExportNotCalled
    /\ RssNotConstructed
    /\ interp_pc = "extract"
    /\ interp_result \in InterpResults
    /\ interp_counts = <<>>
    /\ interp_error = <<>>
    /\ coerce_pc = "none"
    /\ raw_item = <<>>
    /\ coerce_out = <<>>

(* line 111: created_n, skipped_n, failed_n = _extract_create_result_counts *)
ExtractCounts ==
    /\ interp_pc = "extract"
    /\ interp_counts' = _extract_create_result_counts(interp_result)
    /\ interp_pc' = IF interp_counts'[3] > 0 THEN "summarize" ELSE "done"
    /\ UNCHANGED <<export_vars, rss_vars, interp_result, interp_error,
                   coerce_pc, raw_item, coerce_out>>

(* lines 126-134: if failed_n > 0, the error of the failure entry          *)
SummarizeFailures ==
    /\ interp_pc = "summarize"
    /\ interp_error' = <<_summarize_create_failures(interp_result, interp_counts[3])>>
    /\ interp_pc' = "done"
    /\ UNCHANGED <<export_vars, rss_vars, interp_result, interp_counts,
                   coerce_pc, raw_item, coerce_out>>

InterpNext ==
    \/ ExtractCounts
    \/ SummarizeFailures

InterpSpec == InterpInit /\ [][InterpNext]_vars

-----------------------------------------------------------------------------
(* Properties of the interpretation of a create result.                    *)

(* the counts the primary fields of interp_result give                     *)
PrimaryCounts ==
    <<_count(Get(interp_result, "created")),
      _count(Get(interp_result, "skipped_duplicates")),
      IF _count(Get(interp_result, "failed")) > 0
      THEN _count(Get(interp_result, "failed"))
      ELSE _count(Get(interp_result, "failures"))>>

AlternatesOf == <<CreatedAlternates, SkippedAlternates, FailedAlternates>>

(* the positions in names of the alternates interp_result holds as an      *)
(* integer above 0                                                         *)
PositiveAlternates(names) ==
    {k \in 1..Len(names) : IsInt(Get(interp_result, names[k]))
                              /\ Get(interp_result, names[k]).n > 0}

(* C23: the alternate count fields are read only when the primary created, *)
(* skipped and failed counts are all absent or zero: when one primary      *)
(* count is above 0 the three counts are the primary counts, so an outcome *)
(* reported by a primary field and by an alternate is counted once; when   *)
(* the three are 0, each count is the first positive alternate of its      *)
(* outcome, or 0 if it has none.                                           *)
C23_AlternatesOnlyWhenPrimaryZero ==
    interp_counts # <<>> /\ interp_result.isdict =>
        /\ PrimaryCounts # <<0, 0, 0>> => interp_counts = PrimaryCounts
        /\ PrimaryCounts = <<0, 0, 0>> =>
              \A o \in 1..3 :
                 LET names == AlternatesOf[o]
                     positive == PositiveAlternates(names)
                 IN  IF positive = {} THEN interp_counts[o] = 0
                     ELSE \E k \in positive :
                             /\ \A j \in positive : k <= j
                             /\ interp_counts[o] = Get(interp_result, names[k]).n

(* C23 witness: the result of the repository's test, a one-entry failed    *)
(* map together with failed_count: 1, was interpreted as one failed item.  *)
C23_Witness ==
    /\ interp_result = ResultFailed
    /\ _count(Get(interp_result, "failed")) = 1
    /\ Get(interp_result, "failed_count") = IntV(1)
    /\ interp_counts = <<0, 0, 1>>

(* the outcome a primary field name reports: 1 created, 2 skipped, 3 failed *)
OutcomeOf(name) ==
    IF name = "created" THEN 1
    ELSE IF name \in {"skipped_duplicates", "skipped"} THEN 2
    ELSE 3

(* a non-negative integer, a sequence or a mapping, and the count it gives *)
Countable(value) == (value.t = "int" /\ value.n >= 0) \/ value.t \in {"list", "dict"}
Amount(value) == IF value.t = "int" THEN value.n ELSE Len(value.items)

(* the result has the single field name, whose countable value is counted  *)
(* for the outcome of name, and nothing is counted for the other outcomes  *)
CountedUnder(name) ==
    DOMAIN interp_result.f = {name} /\ Countable(interp_result.f[name]) =>
        interp_counts = [o \in 1..3 |-> IF o = OutcomeOf(name)
                                        THEN Amount(interp_result.f[name]) ELSE 0]

(* C24 as stated: a count given as a non-negative integer, a sequence or a *)
(* mapping is accepted under created, under skipped_duplicates or skipped, *)
(* and under failed or failures.                                           *)
C24_CountedUnderEveryName ==
    interp_counts # <<>> /\ interp_result.isdict =>
        \A name \in PrimaryFields : CountedUnder(name)

(* C24 amended: a count given as a non-negative integer, a sequence or a   *)
(* mapping is accepted under created, under skipped_duplicates, and under  *)
(* failed or failures; the field skipped is not read.                      *)
C24_CountedUnderReadNames ==
    interp_counts # <<>> /\ interp_result.isdict =>
        /\ \A name \in PrimaryFields \ {"skipped"} : CountedUnder(name)
        /\ DOMAIN interp_result.f = {"skipped"} => interp_counts = <<0, 0, 0>>

(* C24 witness: a result with the single field skipped_duplicates, a       *)
(* mapping of MaxInt entries, was interpreted as MaxInt skipped items.     *)
C24_Witness ==
    /\ interp_result.isdict
    /\ DOMAIN interp_result.f = {"skipped_duplicates"}
    /\ interp_result.f["skipped_duplicates"].t = "dict"
    /\ interp_counts = <<0, MaxInt, 0>>

(* the entries of the failed mapping / of the failures sequence            *)
FailedEntries ==
    IF Get(interp_result, "failed").t = "dict" THEN Get(interp_result, "failed").items
    ELSE <<>>
FailuresEntries ==
    IF Get(interp_result, "failures").t = "list" THEN Get(interp_result, "failures").items
    ELSE <<>>

(* the entry is a mapping with a non-empty message or error                *)
HasMessage(detail) == detail.isdict /\ (Truthy(detail.message) \/ Truthy(detail.error))
MessageOf(detail) == IF Truthy(detail.message) THEN detail.message ELSE detail.error

(* texts with the repetitions removed, the first occurrence kept           *)
IsFirst(texts, k) == \A j \in 1..(k - 1) : texts[j] # texts[k]
RECURSIVE FirstOccurrences(_, _)
FirstOccurrences(texts, k) ==
    IF k > Len(texts) THEN <<>>
    ELSE (IF IsFirst(texts, k) THEN <<texts[k]>> ELSE <<>>)
         \o FirstOccurrences(texts, k + 1)
Summary(texts) == Join(FirstOccurrences(texts, 1))

(* the messages of the failures sequence: the message or error of an entry *)
(* that is a mapping, the entry itself when it is a non-empty text         *)
FailuresTexts ==
    LET told == SelectSeq(FailuresEntries,
                          LAMBDA detail : HasMessage(detail)
                                            \/ (~detail.isdict /\ detail.truthy))
    IN  [k \in 1..Len(told) |-> IF told[k].isdict THEN MessageOf(told[k])
                                ELSE told[k].str]

(* one failure entry is made for the record exactly when failed items are  *)
(* reported                                                                *)
OneEntryWhenFailed ==
    interp_pc = "done" => Len(interp_error) = (IF interp_counts[3] > 0 THEN 1 ELSE 0)

(* C25 as stated: when failed items are reported one failure entry is      *)
(* made; if no entry of the failed mapping has a message or error and      *)
(* every entry of the failures sequence has one, the error is the messages *)
(* of the failures sequence; if every entry of a non-empty failed mapping  *)
(* has a message or error, the error is those; repetitions are removed in  *)
(* first-occurrence order; the error is the generic text only when neither *)
(* gives a message.                                                        *)
C25_MessageFromFailedElseFailures ==
    /\ OneEntryWhenFailed
    /\ interp_error # <<>> =>
         /\ (\A k \in 1..Len(FailedEntries) : FailedEntries[k].isdict
                                                /\ ~HasMessage(FailedEntries[k]))
               /\ FailuresEntries # <<>>
               /\ (\A k \in 1..Len(FailuresEntries) : HasMessage(FailuresEntries[k]))
            => interp_error[1] = Summary(FailuresTexts)
         /\ FailedEntries # <<>> /\ (\A k \in 1..Len(FailedEntries) :
                                        HasMessage(FailedEntries[k]))
            => interp_error[1] =
                  Summary([k \in 1..Len(FailedEntries) |-> MessageOf(FailedEntries[k])])
         /\ interp_error[1] = Generic(interp_counts[3])
            => /\ \A k \in 1..Len(FailedEntries) : ~HasMessage(FailedEntries[k])
               /\ FailuresTexts = <<>>

(* C25 amended: when failed items are reported one failure entry is made;  *)
(* when failed is a non-empty mapping the error is made of its entries,    *)
(* each giving its message or error or, when it has neither, its string    *)
(* form; else, when the failures sequence gives messages, of those; the    *)
(* repetitions are removed in first-occurrence order; otherwise the error  *)
(* is the generic text.                                                    *)
C25_MessageFromFailedEntries ==
    /\ OneEntryWhenFailed
    /\ interp_error # <<>> /\ interp_result.isdict =>
         interp_error[1] =
            IF FailedEntries # <<>>
            THEN Summary([k \in 1..Len(FailedEntries) |->
                             IF HasMessage(FailedEntries[k])
                             THEN MessageOf(FailedEntries[k])
                             ELSE FailedEntries[k].str])
            ELSE IF FailuresTexts # <<>> THEN Summary(FailuresTexts)
            ELSE Generic(interp_counts[3])

(* C25 witness: a failed mapping whose three entries give m1, m2 and m1    *)
(* again was summarised as "m1; m2".                                       *)
C25_Witness ==
    /\ FailedEntries = <<DetailMessage, DetailError, DetailMessage>>
    /\ interp_error = << <<"m1", "; ", "m2">> >>

-----------------------------------------------------------------------------
(* The coercion of one remote item: _coerce_item_to_dict applied to a dict, *)
(* to an object with model_dump() and to an object with attributes, whose  *)
(* fields are any choice of the values below.                              *)

(* the dicts of ds, and the dicts of ds with the field name added          *)
Extend(ds, name, values) == ds \cup {(name :> v) @@ d : d \in ds, v \in values}

FlatRawData ==
    { <<>>,
      [title |-> <<"R">>],
      [title |-> <<"R">>, DOI |-> <<"10.9/", "r">>, date |-> <<"1999">>,
       url |-> <<"https://", "r.org">>,
       creators |-> CreatorList(<<CreatorName(<<"Raw">>)>>)],
      [doi |-> <<"10.9/", "r">>, note |-> <<"n">>] }
NestedRawData == [data |-> [title |-> <<"N">>], key |-> <<"K1">>]

(* dicts with top-level fields only                                        *)
FlatDicts ==
    LET d1 == Extend({<<>>}, "title", {<<"T">>})
        d2 == Extend(d1, "DOI", {<<"10.1/", "a">>})
        d3 == Extend(d2, "doi", {<<"10.1/", "b">>})
        d4 == Extend(d3, "date", {<<"2024-05-01">>, <<>>})
        d5 == Extend(d4, "year", {PyInt(2025), <<" ">>})
        d6 == Extend(d5, "creators", {CreatorList(<<>>),
                                      CreatorList(<<CreatorName(<<"Li">>)>>)})
        d7 == Extend(d6, "authors", {CreatorText(<<"Wang", " and ", "Li", ";", " ", "Zhao">>),
                                     CreatorList(<<CreatorName(<<"Wang">>)>>)})
    IN  Extend(d7, "url", {<<"https://", "x.com">>})

(* the same with a raw_data and a data field                               *)
RawDicts ==
    Extend(Extend(FlatDicts, "raw_data", FlatRawData \cup {NestedRawData}),
           "data", {[title |-> <<"D">>]})

RawItems ==
    {DictItem(d) : d \in RawDicts} \cup {ModelItem(d) : d \in FlatDicts}
        \cup {AttrItem(d) : d \in FlatDicts}

(* _coerce_item_to_dict is called with raw_item                            *)
CoerceInit ==
    /\ ExportNotCalled
    /\ RssNotConstructed
    /\ interp_pc = "none"
    /\ interp_result = NotAMapping
    /\ interp_counts = <<>>
    /\ interp_error = <<>>
    /\ coerce_pc = "call"
    /\ raw_item \in RawItems
    /\ coerce_out = <<>>

(* lines 441-476: the call returns                                         *)
CoerceItem ==
    /\ coerce_pc = "call"
    /\ coerce_out' = _coerce_item_to_dict(raw_item)
    /\ coerce_pc' = "done"
    /\ UNCHANGED <<export_vars, rss_vars, interp_pc, interp_result, interp_counts,
                   interp_error, raw_item>>

CoerceNext == CoerceItem

CoerceSpec == CoerceInit /\ [][CoerceNext]_vars

-----------------------------------------------------------------------------
(* Properties of the coercion of a remote item.                            *)

(* the value the top level of the dict gives for a field of the result     *)
TopLevel(item, f) ==
    IF f = "DOI" THEN (IF Truthy(Field(item, "DOI")) THEN Field(item, "DOI")
                       ELSE Field(item, "doi"))
    ELSE IF f = "date" THEN str(DateValue(item))
    ELSE Field(item, f)

TopLevelCreators(item) ==
    _coerce_creators(IF CreatorsTruthy(CreatorsField(item, "creators"))
                     THEN CreatorsField(item, "creators")
                     ELSE CreatorsField(item, "authors"))

(* C26: a dict is coerced by the first applicable rule: with a nested data *)
(* dict it is returned unchanged; else, with a raw_data that holds a       *)
(* nested data dict, that raw_data is returned; else, with a flat          *)
(* raw_data, each of title, DOI, date, creators and url of the result is   *)
(* raw_data's value when raw_data has the field, and can be the top-level  *)
(* value only when raw_data does not have it.                              *)
C26_CoercionPriority ==
    coerce_pc = "done" /\ raw_item.kind = "dict" =>
        LET item == raw_item.d
            out == coerce_out[1]
        IN  /\ coerce_out # <<>>
            /\ IF "data" \in DOMAIN item THEN out = item
               ELSE IF "raw_data" \in DOMAIN item /\ "data" \in DOMAIN item["raw_data"]
               THEN out = item["raw_data"]
               ELSE "raw_data" \in DOMAIN item =>
                    LET raw_data == item["raw_data"]
                    IN  /\ \A f \in DOMAIN raw_data :
                              /\ "data" \in DOMAIN out
                              /\ f \in DOMAIN out["data"]
                              /\ ToString(out["data"][f]) = ToString(raw_data[f])
                        /\ "data" \in DOMAIN out =>
                              /\ \A f \in {"title", "DOI", "date", "url"} \ DOMAIN raw_data :
                                    f \in DOMAIN out["data"] =>
                                        out["data"][f] = TopLevel(item, f)
                              /\ "creators" \in DOMAIN out["data"] \ DOMAIN raw_data =>
                                    out["data"]["creators"] = TopLevelCreators(item)
                              /\ \A f \in {"title", "DOI", "date", "url"} \ DOMAIN raw_data :
                                    Truthy(TopLevel(item, f)) => f \in DOMAIN out["data"]

(* C26 witness: a dict with a top-level title, date and url and a flat     *)
(* raw_data holding its own title, DOI, date, creators and url was coerced *)
(* to raw_data's values.                                                   *)
C26_Witness ==
    /\ coerce_pc = "done"
    /\ raw_item.kind = "dict"
    /\ {"title", "date", "url", "DOI", "raw_data"} \subseteq DOMAIN raw_item.d
    /\ "data" \notin DOMAIN raw_item.d
    /\ DOMAIN raw_item.d["raw_data"] = {"title", "DOI", "date", "url", "creators"}
    /\ coerce_out = <<[data |-> raw_item.d["raw_data"]]>>

(* the author names an authors value of the model holds, in order          *)
AuthorNames(authors) ==
    IF authors = CreatorText(<<"Wang", " and ", "Li", ";", " ", "Zhao">>)
    THEN << <<"Wang">>, <<"Li">>, <<"Zhao">> >>
    ELSE << <<"Wang">> >>

(* a flat item with title, doi or DOI, a year and authors, and no creators *)
(* of its own: a dict or the dump of a model object                        *)
FlatWithYear ==
    /\ raw_item.kind \in {"dict", "model"}
    /\ {"title", "year", "authors"} \subseteq DOMAIN raw_item.d
    /\ {"doi", "DOI"} \cap DOMAIN raw_item.d # {}
    /\ {"data", "raw_data"} \cap DOMAIN raw_item.d = {}
    /\ raw_item.d["year"] = PyInt(2025)
    /\ ~CreatorsTruthy(CreatorsField(raw_item.d, "creators"))

-----------------------------------------------------------------------------
(* Properties of the index and of the counters over a run.                 *)

(* the create call of the k-th outcome raised or reported nothing created  *)
NothingCreated(k) ==
    \/ outcomes[k].what = "raised"
    \/ outcomes[k].what = "returned" /\ outcomes[k].counts[1] = 0

(* the index as it was after the k-th outcome                              *)
IndexAfter(k) ==
    IF k < Len(outcomes) THEN outcomes[k + 1].index_before ELSE existing_key_set

PayloadKeysAreRecordKeys ==
    pc = "loop" =>
        \A k \in 1..Len(papers) :
            \A coll \in {<<>>, collection_keys, <<KeyABCD1234>>} :
                SeqToSet(zotero_data_identity_keys(_paper_to_zotero_item(papers[k], coll)))
                    = KeysOf(k)

(* C29 as stated: the identity keys of a record's payload are those of the *)
(* record, for every item type and with or without a collection; hence a   *)
(* record that was created always causes a later identical record of the   *)
(* run to be skipped.                                                      *)
C29_CreatedAlwaysCausesSkip ==
    /\ PayloadKeysAreRecordKeys
    /\ \A i, j \in 1..Len(outcomes) :
          /\ i < j
          /\ Created(i)
          /\ papers[outcomes[j].idx] = papers[outcomes[i].idx]
          => outcomes[j].what = "skipped"

(* C29 amended: the identity keys of a record's payload are those of the   *)
(* record, for every item type and with or without a collection; hence a   *)
(* record that was created and derives at least one key causes a later     *)
(* identical record of the run to be skipped.                              *)
C29_CreatedWithKeysCausesSkip ==
    /\ PayloadKeysAreRecordKeys
    /\ \A i, j \in 1..Len(outcomes) :
          /\ i < j
          /\ Created(i)
          /\ papers[outcomes[j].idx] = papers[outcomes[i].idx]
          /\ KeysOf(outcomes[i].idx) # {}
          => outcomes[j].what = "skipped"

(* C29 witness: a preprint sent to a collection was created and the same   *)
(* record, next in the list, was skipped.                                  *)
C29_Witness ==
    /\ Len(outcomes) = 2
    /\ papers[1] = papers[2]
    /\ IsPreprint(papers[1])
    /\ collection_keys # <<>>
    /\ Created(1)
    /\ SeqToSet(zotero_data_identity_keys(create_calls[1].item)) = KeysOf(1)
    /\ outcomes[2].what = "skipped"

(* every create call of the run raised or reported exactly one outcome,    *)
(* with count 1                                                            *)
OneOutcomeEach ==
    \A k \in 1..Len(outcomes) :
        outcomes[k].what = "returned" =>
            outcomes[k].counts \in {<<1, 0, 0>>, <<0, 1, 0>>, <<0, 0, 1>>}

(* every record skipped, by the check against the index or by the remote   *)
(* store, derived at least one key                                         *)
SkippedHaveKeys ==
    \A k \in 1..Len(outcomes) :
        outcomes[k].what = "skipped"
            \/ (outcomes[k].what = "returned" /\ outcomes[k].counts[2] > 0)
        => KeysOf(outcomes[k].idx) # {}

RECURSIVE SumOver(_, _)
SumOver(by_key, kinds) ==
    IF kinds = {} THEN 0
    ELSE LET kind == CHOOSE x \in kinds : TRUE
         IN  by_key[kind] + SumOver(by_key, kinds \ {kind})

(* C30: total is the number of input records; when every create call of    *)
(* the run raised or reported exactly one outcome with count 1, the        *)
(* returned success_count, skipped_count and number of failures add up to  *)
(* total, and the values of skipped_by_key add up to skipped_count if      *)
(* every skipped record derived at least one key.                          *)
C30_CountersAddUp ==
    returned # <<>> =>
        /\ returned[1].total = Len(papers)
        /\ OneOutcomeEach =>
              /\ returned[1].success_count + returned[1].skipped_count
                    + Len(returned[1].failures) = returned[1].total
              /\ SkippedHaveKeys =>
                    SumOver(returned[1].skipped_by_key, DOMAIN returned[1].skipped_by_key)
                        = returned[1].skipped_count

(* C30 witness: a run over MaxPapers records returned after one record was *)
(* reported as skipped by the remote store and another ended in an         *)
(* exception or a failure, every call having one outcome.                  *)
C30_Witness ==
    /\ returned # <<>>
    /\ Len(papers) = MaxPapers
    /\ OneOutcomeEach
    /\ SkippedHaveKeys
    /\ returned[1].skipped_count >= 1
    /\ Len(returned[1].failures) >= 1
    /\ \E k \in 1..Len(outcomes) : outcomes[k].counts = <<0, 1, 0>>

====
